---- MODULE Spec2Model ----
(***************************************************************************)
(* MeshStat sensor node firmware: the minute bucket aggregator, the radio  *)
(* relay mailbox and the uplink dispatcher of the relay node               *)
(* (final_esp32_code/Code_for_esp32_DANIS_HOUSE_FINAL.ino, first sketch).  *)
(*                                                                         *)
(* Units.  Sound levels and temperatures are fixed-point numbers in        *)
(* hundredths (dB, degrees C): the C doubles live on the grid of           *)
(* hundredths, the C floats on the coarser grid of tenths, so that the     *)
(* narrowing cast (float)x rounds.                                         *)
(***************************************************************************)
EXTENDS Integers, Sequences, FiniteSets, TLC

VARIABLES
    pc,             \* position of the main loop inside loop()
    clock,          \* seconds since Epoch shown by the RTC at its last read
    now,            \* DateTime now, the loop's latest rtc.now()
    uptimeMs,       \* millis() at its last read
    bytes_read,     \* outcome of the last i2s_read
    blocks,         \* number of audio blocks read successfully so far
    dbfs_smooth,    \* smoothing state
    estSPL,         \* loudness reading of the current iteration
    minuteAligned,
    bucketYear, bucketMonth, bucketDay, bucketHour, bucketMinute,
    splSum, dbfsSum, splCount, splMax,
    tempSumC, tempCount, lastTempMs,
    remotePending, remoteLast, msgCopy,
    posts,          \* the POST requests issued to the sink, in order
    rx,             \* history: packets handed to onRecv, in order
    drainMarks,     \* history: Len(rx) at every copy-out of the holding cell
    forwarded,      \* history: relay messages handed to uploadToSupabase
    emitted,        \* history: local records handed to uploadToSupabase
    window,         \* history: loudness readings added to splSum since its reset
    maxWindow,      \* history: blocks (rms, dbfs, reading) offered to splMax since its reset
    tempWindow,     \* history: temperature readings added to tempSumC since its reset
    alignedAt,      \* history: iteration number and clock of the alignment
    skipped,        \* history: minutes an aligned node's clock reads jumped over
    remoteMux,      \* owner of the spinlock remoteMux
    cbpc,           \* position of the radio task inside onRecv
    cbMsg,          \* onRecv's locals: the packet's length test and the decoded msg
    i2sRunning,     \* the I2S peripheral is filling DMA buffers
    reconnects,     \* history: reconnect attempts made by ensureWiFiConnected
    seqno,          \* the transmitter's message counter
    blockedMs       \* history: ms spent inside uploadToSupabase since the last clock read

aggVars   == <<minuteAligned, bucketYear, bucketMonth, bucketDay, bucketHour,
               bucketMinute, splSum, dbfsSum, splCount, splMax, tempSumC,
               tempCount>>
relayVars == <<remotePending, remoteLast, msgCopy>>
histVars  == <<rx, drainMarks, forwarded, emitted, window, maxWindow,
               tempWindow, alignedAt, skipped>>
cbVars    == <<remoteMux, cbpc, cbMsg>>
envVars   == <<cbVars, i2sRunning, seqno, reconnects, seqno>>
vars      == <<pc, clock, now, uptimeMs, bytes_read, blocks, dbfs_smooth,
               estSPL, lastTempMs, aggVars, relayVars, posts, histVars,
               envVars, blockedMs>>

----------------------------------------------------------------------------
(* Bounds of the model *)

MaxBlocks == 4      \* audio blocks read in one run
MaxMinute == 3      \* calendar minutes after Epoch the clock can reach
MaxRecv   == 2      \* packets delivered by the radio in one run
MaxRelayBlocks == 3 \* audio blocks read in one run of the relay specification

----------------------------------------------------------------------------
(* Program constants *)

NaN == -2147483647           \* NAN: a value no float of the model takes

ALPHA_PCT             == 15         \* ALPHA = 0.15
DBFS_SMOOTH_INIT      == -9000      \* dbfs_smooth = -90.0
DBFS_FLOOR            == -12000     \* dbfs = -120.0
SPL_OFFSET            == 12000      \* + 120.0
CAL_OFFSET_DB         == -570       \* -5.7
SPL_MAX_SENTINEL      == -99900     \* -999.0f
SPL_MAX_UNSET_BELOW   == -90000     \* -900.0f
TEMP_SAMPLE_PERIOD_MS == 250
TEMP_MIN_C            == -4000      \* -40.0f
TEMP_MAX_C            == 12500      \* 125.0f
SENSOR_ID_327         == 3
SENSOR_ID_REMOTE      == 4
FULL_SCALE_24         == 8388608    \* 1 << 23

\* Packed layout of the two wire structs: byte width of every field.
MinuteMsgV1Layout == <<4, 4, 4, 2, 1, 1, 1, 1, 4, 4, 4, 4>>
MinuteMsgLayout   == MinuteMsgV1Layout \o <<4>>

RECURSIVE SumSeq(_)
SumSeq(s) == IF s = <<>> THEN 0 ELSE Head(s) + SumSeq(Tail(s))

SizeofMinuteMsgV1 == SumSeq(MinuteMsgV1Layout)
SizeofMinuteMsg   == SumSeq(MinuteMsgLayout)

----------------------------------------------------------------------------
(* uint32_t arithmetic.  A uint32_t is kept as two 16-bit halves, so that   *)
(* sums and differences wrap modulo 2^32 as they do on the device.          *)

Half == 65536

U32(n) == [hi |-> (n \div Half) % Half, lo |-> n % Half]

U32Add(a, d) ==
    [hi |-> (a.hi + (a.lo + d) \div Half) % Half, lo |-> (a.lo + d) % Half]

\* a difference taken half by half, without the borrow
U32SubHalves(a, b) ==
    [hi |-> (a.hi - b.hi) % Half, lo |-> (a.lo - b.lo) % Half]

\* a - b of two uint32_t, modulo 2^32
U32Sub(a, b) ==
    LET borrow == IF a.lo < b.lo THEN 1 ELSE 0
    IN  [hi |-> (a.hi - b.hi - borrow) % Half, lo |-> (a.lo - b.lo) % Half]

\* a >= k for a small constant k < 2^16
U32GeSmall(a, k) == a.hi > 0 \/ a.lo >= k

----------------------------------------------------------------------------
(* Floating point on the two grids *)

IsNaN(x) == x = NaN

\* a / n in double arithmetic: the quotient rounded to the nearest hundredth;
\* 0.0 / 0 is NaN
DDiv(a, n) == IF n = 0 THEN NaN ELSE (2 * a + n) \div (2 * n)

\* (float)x : the double x narrowed to the nearest tenth; NaN stays NaN
ToFloat(x) == IF IsNaN(x) THEN NaN ELSE ((x + 5) \div 10) * 10

RECURSIVE MaxSeq(_)
MaxSeq(s) ==
    IF Len(s) = 1 THEN Head(s)
    ELSE LET m == MaxSeq(Tail(s)) IN IF Head(s) > m THEN Head(s) ELSE m

----------------------------------------------------------------------------
(* Clock source: the RTC.  The clock counts seconds from Epoch; the model   *)
(* reads it at the seconds listed in SecondSamples of every minute.         *)

Epoch == [year |-> 2026, month |-> 12, day |-> 31, hour |-> 23, minute |-> 58]

SecondSamples == {0, 30}

ClockValues == {m * 60 + s : m \in 0..MaxMinute, s \in SecondSamples}

MinuteStarts == {t \in ClockValues : t % 60 = 0}

\* rtc.now(): the calendar fields of the instant t
DateTimeOf(t) ==
    LET mm == Epoch.minute + t \div 60
    IN  IF mm < 60
        THEN [year |-> Epoch.year, month |-> Epoch.month, day |-> Epoch.day,
              hour |-> Epoch.hour, minute |-> mm, second |-> t % 60]
        ELSE [year |-> Epoch.year + 1, month |-> 1, day |-> 1,
              hour |-> (mm - 60) \div 60, minute |-> mm % 60,
              second |-> t % 60]

NoTime == [year |-> 0, month |-> 0, day |-> 0, hour |-> 0, minute |-> 0,
           second |-> 0]

\* the open bucket's key
BucketKey == [year |-> bucketYear, month |-> bucketMonth, day |-> bucketDay,
              hour |-> bucketHour, minute |-> bucketMinute]

KeyOf(t) == [year |-> t.year, month |-> t.month, day |-> t.day,
             hour |-> t.hour, minute |-> t.minute]

\* a rollover test that expects the minute to grow
RolloverDetectedByGrowth(t) == t.minute > bucketMinute

\* the rollover test of loop()
RolloverDetected(t) ==
    \/ t.minute # bucketMinute
    \/ t.hour # bucketHour
    \/ t.day # bucketDay
    \/ t.month # bucketMonth
    \/ t.year # bucketYear

----------------------------------------------------------------------------
(* Loudness estimator *)

\* An audio block: the read's outcome and, for a block whose samples all
\* have the same magnitude, that 32-bit sample.
AudioBlocks ==
    { [err |-> "ESP_OK", bytes_read |-> 2048, sample |-> 0],
      [err |-> "ESP_OK", bytes_read |-> 2048, sample |-> 2147328],
      [err |-> "ESP_FAIL", bytes_read |-> 0, sample |-> 0] }

Abs(x) == IF x < 0 THEN -x ELSE x

\* n = bytes_read / sizeof(int32_t)
SampleCount(block) == block.bytes_read \div 4

\* sqrt(sum_sq / n) of a block of n samples of the same magnitude,
\* s = sample >> 8; of no sample at all it is sqrt(0.0 / 0.0), NaN
Rms(block) ==
    IF SampleCount(block) = 0 THEN NaN ELSE Abs(block.sample \div 256)

NegInf == -2147483646        \* -Infinity: below every float of the model

\* 20 * log10(x / FULL_SCALE_24), in hundredths, at the levels the model
\* feeds; log10(0) is -Infinity and log10(NaN) is NaN
Log10Ratio ==
    [r \in {NaN, 0, 1, 2, 8388, FULL_SCALE_24} |->
        CASE r = NaN -> NaN
          [] r = 0 -> NegInf
          [] r = 1 -> -13847
          [] r = 2 -> -13245
          [] r = 8388 -> -6000
          [] r = FULL_SCALE_24 -> 0]

\* a clamp that lets an rms of exactly 1.0 through
DbfsFromOne(rms) == IF ~IsNaN(rms) /\ rms >= 1 THEN Log10Ratio[rms] ELSE DBFS_FLOOR

\* double dbfs = -120.0; if (rms > 1.0) dbfs = 20.0 * log10(...);
\* (a NaN rms compares false)
Dbfs(rms) == IF ~IsNaN(rms) /\ rms > 1 THEN Log10Ratio[rms] ELSE DBFS_FLOOR

\* a blend that weighs the new block by 1 - ALPHA
SmoothHeavy(prev, dbfs) ==
    (ALPHA_PCT * prev + (100 - ALPHA_PCT) * dbfs + 50) \div 100

\* dbfs_smooth = (1.0 - ALPHA) * dbfs_smooth + ALPHA * dbfs
Smooth(prev, dbfs) ==
    ((100 - ALPHA_PCT) * prev + ALPHA_PCT * dbfs + 50) \div 100

EstSPL(smooth) == smooth + SPL_OFFSET + CAL_OFFSET_DB

----------------------------------------------------------------------------
(* Temperature sampler *)

\* what readThermistorC_legacyADC1() can return: NaN, 21.5 C, 130.0 C
ThermistorReadings == {NaN, 2150, 13000}

\* the validity test of loop() on a reading
TempValid(tC) == ~IsNaN(tC) /\ tC > TEMP_MIN_C /\ tC < TEMP_MAX_C

\* time that passes between two reads of millis(), in ms
MsSteps == {125}

----------------------------------------------------------------------------
(* Radio wire messages *)

FieldNames == <<"node_id", "seq", "uptime_ms", "year", "month", "day", "hour",
                "minute", "avg_estSPL", "max_estSPL", "avg_dBFS", "n_samples",
                "temp_c">>

\* MinuteMsg msg{} : every field zero
ZeroMsg == [f \in {FieldNames[i] : i \in 1..Len(FieldNames)} |-> 0]

\* the bucket message number seq of the remote node, field by field
RemoteFields(seq) ==
    LET t == DateTimeOf((seq - 1) * 60)
    IN  <<9, seq, seq * 60000, t.year, t.month, t.day, t.hour, t.minute,
          5000 + 100 * seq, 5500 + 100 * seq, -6430, 100 + seq, 2000 + 10 * seq>>

\* a radio packet: the first n fields of a bucket message, and their byte length
Packet(seq, n) ==
    [len |-> SumSeq(SubSeq(MinuteMsgLayout, 1, n)),
     fields |-> SubSeq(RemoteFields(seq), 1, n)]

\* field counts of the packets on the air: MinuteMsg, MinuteMsg_V1, PingMsg
PacketFieldCounts == {Len(MinuteMsgLayout), Len(MinuteMsgV1Layout), 3}

\* position of every field in the struct, and the offset of its last byte
FieldIndex ==
    [f \in DOMAIN ZeroMsg |-> CHOOSE k \in 1..Len(FieldNames) : FieldNames[k] = f]

FieldEnd ==
    [i \in 1..Len(MinuteMsgLayout) |-> SumSeq(SubSeq(MinuteMsgLayout, 1, i))]

\* memcpy(&msg, incomingData, size) into a zeroed MinuteMsg
Memcpy(fields, size) ==
    [f \in DOMAIN ZeroMsg |->
        LET i == FieldIndex[f]
        IN  IF FieldEnd[i] <= size /\ i <= Len(fields) THEN fields[i] ELSE 0]

\* the length dispatch of onRecv: ok, and the decoded msg
Accepts(packet) ==
    packet.len = SizeofMinuteMsg \/ packet.len = SizeofMinuteMsgV1

Decode(packet) ==
    IF packet.len = SizeofMinuteMsg
    THEN Memcpy(packet.fields, SizeofMinuteMsg)
    ELSE IF packet.len = SizeofMinuteMsgV1
    THEN [Memcpy(packet.fields, SizeofMinuteMsgV1) EXCEPT !.temp_c = NaN]
    ELSE ZeroMsg

----------------------------------------------------------------------------
(* Uplink dispatcher *)

\* ms a POST takes when the sink answers promptly (TLS handshake and request)
POST_MS == 900

\* what one call of uploadToSupabase can meet: the link down, http.begin
\* failing, or the code http.POST returns (negative: no response), and the
\* ms the call takes
UploadOutcomes ==
    { [wifi |-> FALSE, begin |-> TRUE, code |-> 0, ms |-> 0],
      [wifi |-> TRUE, begin |-> FALSE, code |-> 0, ms |-> 0] }
    \cup { [wifi |-> TRUE, begin |-> TRUE, code |-> c, ms |-> POST_MS] :
              c \in {201, 204, 500, -11} }

\* the two outcomes that differ in the link only
LinkOutcomes == {o \in UploadOutcomes : o.begin /\ o.code \in {0, 201}}

\* the link down, a success and a refusal
ForwardOutcomes == {o \in UploadOutcomes : o.begin /\ o.code \in {0, 201, 500}}

\* a JSON body that always carries celsius
BodyAlwaysCelsius(sensor_id, t, average_db, max_db, celsius) ==
    [sensor_id |-> sensor_id,
     ts_utc |-> [year |-> t.year, month |-> t.month, day |-> t.day,
                 hour |-> t.hour, minute |-> t.minute, second |-> 0],
     average_db |-> average_db, max_db |-> max_db, celsius |-> celsius]

\* the JSON body: celsius is present only for a number
Body(sensor_id, t, average_db, max_db, celsius) ==
    LET base == [sensor_id |-> sensor_id,
                 ts_utc |-> [year |-> t.year, month |-> t.month, day |-> t.day,
                             hour |-> t.hour, minute |-> t.minute, second |-> 0],
                 average_db |-> average_db, max_db |-> max_db]
    IN  IF ~IsNaN(celsius) THEN base @@ ("celsius" :> celsius) ELSE base

\* an uploadToSupabase that sends a refused POST a second time
UploadToSupabaseRetry(outcome, sensor_id, t, average_db, max_db, celsius) ==
    LET post == [body |-> Body(sensor_id, t, average_db, max_db, celsius),
                 code |-> outcome.code,
                 ok |-> (outcome.code = 201 \/ outcome.code = 204)]
    IN  IF ~outcome.wifi THEN posts
        ELSE IF ~outcome.begin THEN posts
        ELSE IF post.ok THEN Append(posts, post)
        ELSE Append(Append(posts, post), post)

\* uploadToSupabase: the POST log after the call
UploadToSupabase(outcome, sensor_id, t, average_db, max_db, celsius) ==
    IF ~outcome.wifi THEN posts
    ELSE IF ~outcome.begin THEN posts
    ELSE Append(posts, [body |-> Body(sensor_id, t, average_db, max_db, celsius),
                        code |-> outcome.code,
                        ok |-> (outcome.code = 201 \/ outcome.code = 204)])

----------------------------------------------------------------------------
(* State after setup() *)

Init ==
    /\ pc = "top"
    /\ clock = 0
    /\ now = NoTime
    /\ uptimeMs = U32(0)
    /\ bytes_read = 0
    /\ blocks = 0
    /\ dbfs_smooth = DBFS_SMOOTH_INIT
    /\ estSPL = 0
    /\ minuteAligned = FALSE
    /\ bucketYear = -1 /\ bucketMonth = -1 /\ bucketDay = -1
    /\ bucketHour = -1 /\ bucketMinute = -1
    /\ splSum = 0 /\ dbfsSum = 0 /\ splCount = 0
    /\ splMax = SPL_MAX_SENTINEL
    /\ tempSumC = 0 /\ tempCount = 0
    /\ lastTempMs = U32(0)
    /\ remotePending = FALSE
    /\ remoteLast = ZeroMsg
    /\ msgCopy = ZeroMsg
    /\ posts = <<>>
    /\ rx = <<>> /\ drainMarks = <<>> /\ forwarded = <<>> /\ emitted = <<>>
    /\ window = <<>> /\ maxWindow = <<>> /\ tempWindow = <<>>
    /\ alignedAt = [it |-> 0, t |-> 0]
    /\ skipped = {}
    /\ remoteMux = "unlocked"
    /\ cbpc = "idle"
    /\ cbMsg = [ok |-> FALSE, msg |-> ZeroMsg]
    /\ i2sRunning = TRUE
    /\ reconnects = 0
    /\ seqno = U32(0)
    /\ blockedMs = 0

----------------------------------------------------------------------------
(* The receive callback *)

\* onRecv that keeps the message already pending instead of overwriting it
OnRecvKeepFirst(n) ==
    /\ Len(rx) < MaxRecv
    /\ LET packet == Packet(Len(rx) + 1, n)
           ok == Accepts(packet)
           msg == Decode(packet)
       IN  /\ rx' = Append(rx, packet)
           /\ IF ok /\ ~remotePending
              THEN /\ remoteLast' = msg
                   /\ remotePending' = TRUE
              ELSE UNCHANGED <<remoteLast, remotePending>>
    /\ UNCHANGED envVars
    /\ UNCHANGED blockedMs
    /\ UNCHANGED <<pc, clock, now, uptimeMs, bytes_read, blocks, dbfs_smooth,
                   estSPL, lastTempMs, aggVars, msgCopy, posts, drainMarks,
                   forwarded, emitted, window, maxWindow, tempWindow,
                   alignedAt, skipped>>

\* onRecv that copies into the holding cell before it has checked the length
OnRecvCopyFirst(n) ==
    /\ Len(rx) < MaxRecv
    /\ LET packet == Packet(Len(rx) + 1, n)
           ok == Accepts(packet)
           msg == Memcpy(packet.fields, packet.len)
       IN  /\ rx' = Append(rx, packet)
           /\ remoteLast' = msg
           /\ remotePending' = (remotePending \/ ok)
    /\ UNCHANGED envVars
    /\ UNCHANGED blockedMs
    /\ UNCHANGED <<pc, clock, now, uptimeMs, bytes_read, blocks, dbfs_smooth,
                   estSPL, lastTempMs, aggVars, msgCopy, posts, drainMarks,
                   forwarded, emitted, window, maxWindow, tempWindow,
                   alignedAt, skipped>>

\* onRecv(info, incomingData, len) for the packet of kind n numbered seq
OnRecv(n) ==
    /\ Len(rx) < MaxRecv
    /\ LET packet == Packet(Len(rx) + 1, n)
           ok == Accepts(packet)
           msg == Decode(packet)
       IN  /\ rx' = Append(rx, packet)
           /\ IF ok
              THEN /\ remoteLast' = msg
                   /\ remotePending' = TRUE
              ELSE UNCHANGED <<remoteLast, remotePending>>
    /\ UNCHANGED envVars
    /\ UNCHANGED blockedMs
    /\ UNCHANGED <<pc, clock, now, uptimeMs, bytes_read, blocks, dbfs_smooth,
                   estSPL, lastTempMs, aggVars, msgCopy, posts, drainMarks,
                   forwarded, emitted, window, maxWindow, tempWindow,
                   alignedAt, skipped>>

----------------------------------------------------------------------------
(* The main loop *)

\* a loop that reads audio first, whatever the flag
LoopTestAudioFirst ==
    /\ pc = "top"
    /\ pc' = "read"
    /\ UNCHANGED envVars
    /\ UNCHANGED blockedMs
    /\ UNCHANGED <<clock, now, uptimeMs, bytes_read, blocks, dbfs_smooth,
                   estSPL, lastTempMs, aggVars, relayVars, posts, histVars>>

\* if (remotePending)
LoopTest ==
    /\ pc = "top"
    /\ pc' = IF remotePending THEN "drain" ELSE "read"
    /\ UNCHANGED envVars
    /\ UNCHANGED blockedMs
    /\ UNCHANGED <<clock, now, uptimeMs, bytes_read, blocks, dbfs_smooth,
                   estSPL, lastTempMs, aggVars, relayVars, posts, histVars>>

\* the critical section of loop(): copy the holding cell out, clear the flag
LoopDrain ==
    /\ pc = "drain"
    /\ msgCopy' = remoteLast
    /\ remotePending' = FALSE
    /\ drainMarks' = Append(drainMarks, Len(rx))
    /\ pc' = "forward"
    /\ UNCHANGED envVars
    /\ UNCHANGED blockedMs
    /\ UNCHANGED <<clock, now, uptimeMs, bytes_read, blocks, dbfs_smooth,
                   estSPL, lastTempMs, aggVars, remoteLast, posts, rx,
                   forwarded, emitted, window, maxWindow, tempWindow,
                   alignedAt, skipped>>

\* forward the copied relay message to the sink
LoopForward(outcome) ==
    /\ pc = "forward"
    /\ posts' = UploadToSupabase(outcome, SENSOR_ID_REMOTE, msgCopy,
                                 msgCopy.avg_estSPL, msgCopy.max_estSPL,
                                 msgCopy.temp_c)
    /\ forwarded' = Append(forwarded, msgCopy)
    /\ blockedMs' = blockedMs + outcome.ms
    /\ pc' = "read"
    /\ UNCHANGED envVars
    /\ UNCHANGED <<clock, now, uptimeMs, bytes_read, blocks, dbfs_smooth,
                   estSPL, lastTempMs, aggVars, relayVars, rx, drainMarks,
                   emitted, window, maxWindow, tempWindow, alignedAt, skipped>>

\* a read whose failure still decays the smoothing state towards the floor
LoopReadSmoothFirst(block, t) ==
    /\ pc = "read"
    /\ i2sRunning
    /\ bytes_read' = block.bytes_read
    /\ IF block.err # "ESP_OK" \/ block.bytes_read = 0
       THEN /\ pc' = "top"
            /\ dbfs_smooth' = Smooth(dbfs_smooth, DBFS_FLOOR)
            /\ UNCHANGED <<clock, now, blocks, estSPL, splMax,
                           maxWindow, skipped, blockedMs>>
       ELSE /\ blocks < MaxBlocks
            /\ t >= clock
            /\ LET smooth == Smooth(dbfs_smooth, Dbfs(Rms(block)))
                   spl == EstSPL(smooth)
               IN  /\ dbfs_smooth' = smooth
                   /\ estSPL' = spl
                   /\ splMax' = IF ToFloat(spl) > splMax THEN ToFloat(spl)
                                ELSE splMax
                   /\ maxWindow' = Append(maxWindow,
                                          [it |-> blocks + 1, v |-> spl,
                                           rms |-> Rms(block),
                                           dbfs |-> Dbfs(Rms(block))])
            /\ blocks' = blocks + 1
            /\ clock' = t
            /\ now' = DateTimeOf(t)
            /\ blockedMs' = 0
            /\ skipped' = IF minuteAligned
                          THEN skipped \cup ((clock \div 60 + 1) .. (t \div 60 - 1))
                          ELSE skipped
            /\ pc' = "align"
    /\ UNCHANGED envVars
    /\ UNCHANGED <<uptimeMs, lastTempMs, minuteAligned, bucketYear, bucketMonth,
                   bucketDay, bucketHour, bucketMinute, splSum, dbfsSum,
                   splCount, tempSumC, tempCount, relayVars, posts, rx,
                   drainMarks, forwarded, emitted, window, tempWindow,
                   alignedAt>>

\* i2s_read, the loudness estimate, the running maximum and rtc.now()
LoopRead(block, t) ==
    /\ pc = "read"
    /\ i2sRunning
    /\ bytes_read' = block.bytes_read
    /\ IF block.err # "ESP_OK" \/ block.bytes_read = 0
       THEN /\ pc' = "top"
            /\ UNCHANGED <<clock, now, blocks, dbfs_smooth, estSPL, splMax,
                           maxWindow, skipped, blockedMs>>
       ELSE /\ blocks < MaxBlocks
            /\ t >= clock
            /\ LET smooth == Smooth(dbfs_smooth, Dbfs(Rms(block)))
                   spl == EstSPL(smooth)
               IN  /\ dbfs_smooth' = smooth
                   /\ estSPL' = spl
                   /\ splMax' = IF ToFloat(spl) > splMax THEN ToFloat(spl)
                                ELSE splMax
                   /\ maxWindow' = Append(maxWindow,
                                          [it |-> blocks + 1, v |-> spl,
                                           rms |-> Rms(block),
                                           dbfs |-> Dbfs(Rms(block))])
            /\ blocks' = blocks + 1
            /\ clock' = t
            /\ now' = DateTimeOf(t)
            /\ blockedMs' = 0
            /\ skipped' = IF minuteAligned
                          THEN skipped \cup ((clock \div 60 + 1) .. (t \div 60 - 1))
                          ELSE skipped
            /\ pc' = "align"
    /\ UNCHANGED envVars
    /\ UNCHANGED <<uptimeMs, lastTempMs, minuteAligned, bucketYear, bucketMonth,
                   bucketDay, bucketHour, bucketMinute, splSum, dbfsSum,
                   splCount, tempSumC, tempCount, relayVars, posts, rx,
                   drainMarks, forwarded, emitted, window, tempWindow,
                   alignedAt>>

\* an alignment test that only avoids the end of the minute
AtMinuteStartLoose(t) == t.second < 59

\* now.second() == 0
AtMinuteStart(t) == t.second = 0

\* a bucket that advances by one minute instead of jumping to the clock
OpenBucketStepOne(t) ==
    LET m == CHOOSE k \in 0..MaxMinute : KeyOf(DateTimeOf(k * 60)) = BucketKey
        u == IF minuteAligned THEN DateTimeOf((m + 1) * 60) ELSE t
    IN  /\ bucketYear' = u.year
        /\ bucketMonth' = u.month
        /\ bucketDay' = u.day
        /\ bucketHour' = u.hour
        /\ bucketMinute' = u.minute

\* bucketYear = now.year(); ... bucketMinute = now.minute();
OpenBucket(t) ==
    /\ bucketYear' = t.year
    /\ bucketMonth' = t.month
    /\ bucketDay' = t.day
    /\ bucketHour' = t.hour
    /\ bucketMinute' = t.minute

\* a reset that forgets the running maximum
ZeroAccumulatorKeepMax ==
    /\ splSum' = 0 /\ dbfsSum' = 0 /\ splCount' = 0 /\ window' = <<>>
    /\ UNCHANGED <<splMax, maxWindow>>
    /\ tempSumC' = 0 /\ tempCount' = 0 /\ tempWindow' = <<>>

\* splSum = 0.0; ... tempCount = 0;  (the histories empty with their sums)
ZeroAccumulator ==
    /\ splSum' = 0 /\ dbfsSum' = 0 /\ splCount' = 0 /\ window' = <<>>
    /\ splMax' = SPL_MAX_SENTINEL /\ maxWindow' = <<>>
    /\ tempSumC' = 0 /\ tempCount' = 0 /\ tempWindow' = <<>>

\* an aligning iteration that ends once the bucket is open
LoopAlignThenReturn ==
    /\ pc = "align"
    /\ IF ~minuteAligned
       THEN IF AtMinuteStart(now)
            THEN /\ minuteAligned' = TRUE
                 /\ OpenBucket(now)
                 /\ ZeroAccumulator
                 /\ alignedAt' = [it |-> blocks, t |-> clock]
                 /\ pc' = "top"
            ELSE /\ pc' = "top"
                 /\ UNCHANGED <<aggVars, window, maxWindow, tempWindow,
                                alignedAt>>
       ELSE /\ pc' = "temp"
            /\ UNCHANGED <<aggVars, window, maxWindow, tempWindow, alignedAt>>
    /\ UNCHANGED envVars
    /\ UNCHANGED blockedMs
    /\ UNCHANGED <<clock, now, uptimeMs, bytes_read, blocks, dbfs_smooth,
                   estSPL, lastTempMs, relayVars, posts, rx, drainMarks,
                   forwarded, emitted, skipped>>

\* if (!minuteAligned) ...
LoopAlign ==
    /\ pc = "align"
    /\ IF ~minuteAligned
       THEN IF AtMinuteStart(now)
            THEN /\ minuteAligned' = TRUE
                 /\ OpenBucket(now)
                 /\ ZeroAccumulator
                 /\ alignedAt' = [it |-> blocks, t |-> clock]
                 /\ pc' = "temp"
            ELSE /\ pc' = "top"
                 /\ UNCHANGED <<aggVars, window, maxWindow, tempWindow,
                                alignedAt>>
       ELSE /\ pc' = "temp"
            /\ UNCHANGED <<aggVars, window, maxWindow, tempWindow, alignedAt>>
    /\ UNCHANGED envVars
    /\ UNCHANGED blockedMs
    /\ UNCHANGED <<clock, now, uptimeMs, bytes_read, blocks, dbfs_smooth,
                   estSPL, lastTempMs, relayVars, posts, rx, drainMarks,
                   forwarded, emitted, skipped>>

\* the temperature sample, at most once per TEMP_SAMPLE_PERIOD_MS
LoopTemp(d, tC) ==
    /\ pc = "temp"
    /\ LET ms == U32Add(uptimeMs, d)
       IN  /\ uptimeMs' = ms
           /\ IF U32GeSmall(U32Sub(ms, lastTempMs), TEMP_SAMPLE_PERIOD_MS)
              THEN /\ lastTempMs' = ms
                   /\ IF TempValid(tC)
                      THEN /\ tempSumC' = tempSumC + tC
                           /\ tempCount' = tempCount + 1
                           /\ tempWindow' = Append(tempWindow,
                                                   [it |-> blocks, v |-> tC])
                      ELSE UNCHANGED <<tempSumC, tempCount, tempWindow>>
              ELSE UNCHANGED <<lastTempMs, tempSumC, tempCount, tempWindow>>
    /\ pc' = "roll"
    /\ UNCHANGED envVars
    /\ UNCHANGED blockedMs
    /\ UNCHANGED <<clock, now, bytes_read, blocks, dbfs_smooth, estSPL,
                   minuteAligned, bucketYear, bucketMonth, bucketDay,
                   bucketHour, bucketMinute, splSum, dbfsSum, splCount, splMax,
                   relayVars, posts, rx, drainMarks, forwarded, emitted,
                   window, maxWindow, alignedAt, skipped>>

\* an average that divides whatever the count
avgSPL_1minUnguarded == ToFloat(DDiv(splSum, splCount))

\* the averages and the maximum computed at a rollover
avgSPL_1min  == IF splCount > 0 THEN ToFloat(DDiv(splSum, splCount)) ELSE 0
avgDBFS_1min == IF splCount > 0 THEN ToFloat(DDiv(dbfsSum, splCount))
                ELSE DBFS_FLOOR
maxSPL_1min  == IF splMax < SPL_MAX_UNSET_BELOW THEN avgSPL_1min ELSE splMax
avgTempC_1min == IF tempCount > 0 THEN ToFloat(DDiv(tempSumC, tempCount))
                 ELSE NaN

\* a record stamped with the minute that has just begun
CompletedBucketRecordNewKey ==
    [bucketKey |-> KeyOf(now), avgSplDb |-> avgSPL_1min,
     maxSplDb |-> maxSPL_1min, avgDbfs |-> avgDBFS_1min,
     loudnessSampleCount |-> splCount, avgCelsius |-> avgTempC_1min]

\* the record handed to the uplink dispatcher
CompletedBucketRecord ==
    [bucketKey |-> BucketKey, avgSplDb |-> avgSPL_1min,
     maxSplDb |-> maxSPL_1min, avgDbfs |-> avgDBFS_1min,
     loudnessSampleCount |-> splCount, avgCelsius |-> avgTempC_1min]

\* the rollover check: flush the open bucket and open the next
LoopRollover(outcome) ==
    /\ pc = "roll"
    /\ IF RolloverDetected(now)
       THEN /\ LET rec == CompletedBucketRecord
               IN  /\ posts' = UploadToSupabase(outcome, SENSOR_ID_327,
                                                rec.bucketKey, rec.avgSplDb,
                                                rec.maxSplDb, rec.avgCelsius)
                   /\ emitted' = Append(emitted, rec)
            /\ blockedMs' = blockedMs + outcome.ms
            /\ OpenBucket(now)
            /\ ZeroAccumulator
       ELSE UNCHANGED <<posts, emitted, bucketYear, bucketMonth, bucketDay,
                        bucketHour, bucketMinute, splSum, dbfsSum, splCount,
                        splMax, tempSumC, tempCount, window, maxWindow,
                        tempWindow, blockedMs>>
    /\ pc' = "accum"
    /\ UNCHANGED envVars
    /\ UNCHANGED <<clock, now, uptimeMs, bytes_read, blocks, dbfs_smooth,
                   estSPL, lastTempMs, minuteAligned, relayVars, rx,
                   drainMarks, forwarded, alignedAt, skipped>>

\* splSum += estSPL; dbfsSum += dbfs_smooth; splCount++
LoopAccumulate ==
    /\ pc = "accum"
    /\ splSum' = splSum + estSPL
    /\ dbfsSum' = dbfsSum + dbfs_smooth
    /\ splCount' = splCount + 1
    /\ window' = Append(window, [it |-> blocks, v |-> estSPL])
    /\ pc' = "top"
    /\ UNCHANGED envVars
    /\ UNCHANGED blockedMs
    /\ UNCHANGED <<clock, now, uptimeMs, bytes_read, blocks, dbfs_smooth,
                   estSPL, lastTempMs, minuteAligned, bucketYear, bucketMonth,
                   bucketDay, bucketHour, bucketMinute, splMax, tempSumC,
                   tempCount, relayVars, posts, rx, drainMarks, forwarded,
                   emitted, maxWindow, tempWindow, alignedAt, skipped>>

----------------------------------------------------------------------------
(* Specifications *)

\* a node whose radio peer is silent: the aggregator and the local uplink
Next ==
    \/ LoopTest
    \/ \E block \in AudioBlocks, t \in ClockValues : LoopRead(block, t)
    \/ LoopAlign
    \/ \E d \in MsSteps, tC \in ThermistorReadings : LoopTemp(d, tC)
    \/ \E outcome \in LinkOutcomes : LoopRollover(outcome)
    \/ LoopAccumulate

Spec == Init /\ [][Next]_vars

\* the relay node with its radio peer on the air; its own microphone hears
\* silence and its thermistor reads one value
SilentBlocks == {b \in AudioBlocks : b.sample = 0}

NextRelay ==
    \/ \E n \in PacketFieldCounts : OnRecv(n)
    \/ LoopTest
    \/ LoopDrain
    \/ \E outcome \in ForwardOutcomes : LoopForward(outcome)
    \/ \E block \in SilentBlocks, t \in MinuteStarts :
            /\ blocks < MaxRelayBlocks
            /\ t <= clock + 60
            /\ LoopRead(block, t)
    \/ LoopAlign
    \/ \E d \in MsSteps : LoopTemp(d, 2150)
    \/ \E outcome \in LinkOutcomes : outcome.wifi /\ LoopRollover(outcome)
    \/ LoopAccumulate

SpecRelay == Init /\ [][NextRelay]_vars

----------------------------------------------------------------------------
(* Properties of the relay mailbox *)

\* the packets among the first k delivered whose length onRecv recognises
AcceptedIn(r) ==
    {i \in 1..Len(r) : r[i].len = SizeofMinuteMsg \/ r[i].len = SizeofMinuteMsgV1}

AcceptedUpTo(k) == AcceptedIn(SubSeq(rx, 1, k))

SetMax(S) == CHOOSE x \in S : \A y \in S : y <= x

\* the message the holding cell should hold after the first k packets
LastAccepted(k) == Decode(rx[SetMax(AcceptedUpTo(k))])

\* accepted packets that a later accepted packet overwrote before any drain
Overwritten ==
    {i \in AcceptedUpTo(Len(rx)) :
        \E j \in AcceptedUpTo(Len(rx)) :
            /\ i < j
            /\ \A d \in 1..Len(drainMarks) : ~(i <= drainMarks[d] /\ drainMarks[d] < j)}

RemotePosts == {i \in 1..Len(posts) : posts[i].body.sensor_id = SENSOR_ID_REMOTE}

\* C1: two messages accepted before the main loop drains the mailbox: the
\* drain forwards the second only; the first is never forwarded and never
\* reaches the sink (single-slot overwrite, no queueing).
C1_SingleSlotOverwrite ==
    /\ \A d \in 1..Len(forwarded) :
          /\ AcceptedUpTo(drainMarks[d]) # {}
          /\ forwarded[d] = LastAccepted(drainMarks[d])
    /\ \A i \in Overwritten :
          /\ \A d \in 1..Len(forwarded) : forwarded[d].seq # rx[i].fields[2]
          /\ pc = "forward" => msgCopy.seq # rx[i].fields[2]
          /\ \A q \in RemotePosts :
                posts[q].body.ts_utc.minute # rx[i].fields[8]

C1_Witness ==
    /\ Len(forwarded) >= 1
    /\ drainMarks[1] = 2
    /\ AcceptedUpTo(2) = {1, 2}
    /\ forwarded[1].seq = 2
    /\ RemotePosts # {}

\* C10: a packet whose length is neither sizeof(MinuteMsg) nor
\* sizeof(MinuteMsg_V1) leaves remoteLast and remotePending as they were, and
\* the holding cell keeps the last accepted message whole until it is drained.
C10_RejectStep ==
    (rx' # rx /\ AcceptedIn(rx') = AcceptedIn(rx))
        => (remoteLast' = remoteLast /\ remotePending' = remotePending)

C10_CellIntact ==
    /\ AcceptedUpTo(Len(rx)) = {} => (remoteLast = ZeroMsg /\ ~remotePending)
    /\ AcceptedUpTo(Len(rx)) # {} => remoteLast = LastAccepted(Len(rx))
    /\ pc = "forward" => msgCopy = LastAccepted(drainMarks[Len(drainMarks)])

C10_MalformedLengthRejected == [][C10_RejectStep]_vars /\ []C10_CellIntact

C10_Witness ==
    /\ Len(rx) >= 2
    /\ AcceptedUpTo(2) = {1}
    /\ Len(forwarded) >= 1
    /\ drainMarks[1] = 2
    /\ forwarded[1] = Decode(rx[1])

----------------------------------------------------------------------------
(* Properties of the minute bucket aggregator *)

\* minutes since Epoch of a bucket key
KeyIdx(k) == CHOOSE m \in 0..MaxMinute : KeyOf(DateTimeOf(m * 60)) = k

Last(s) == s[Len(s)]

RECURSIVE SumV(_)
SumV(w) == IF w = <<>> THEN 0 ELSE Head(w).v + SumV(Tail(w))

RECURSIVE MaxV(_)
MaxV(w) ==
    IF Len(w) = 1 THEN ToFloat(Head(w).v)
    ELSE LET m == MaxV(Tail(w))
         IN  IF ToFloat(Head(w).v) > m THEN ToFloat(Head(w).v) ELSE m

\* mean of the readings w, as a float; z when there are none
MeanV(w, z) == IF w = <<>> THEN z ELSE ToFloat(DDiv(SumV(w), Len(w)))

\* C2: an ALIGNED iteration emits a record iff the clock's (year, month,
\* day, hour, minute) differs from the open bucket key, one record at most,
\* and the rollover check run again on the same clock reading emits nothing.
C2_RolloverStep ==
    /\ pc = "roll" =>
          /\ (emitted' # emitted) <=> (KeyOf(now) # BucketKey)
          /\ emitted' # emitted =>
                /\ Len(emitted') = Len(emitted) + 1
                /\ SubSeq(emitted', 1, Len(emitted)) = emitted
          /\ KeyOf(now') = BucketKey'
    /\ pc # "roll" => emitted' = emitted

C2_SameReadingNoRollover ==
    (minuteAligned /\ pc \notin {"align", "temp", "roll"}) => KeyOf(now) = BucketKey

C2_OneRecordPerTransition ==
    [][C2_RolloverStep]_vars /\ []C2_SameReadingNoRollover

C2_Witness ==
    /\ pc = "accum"
    /\ Len(emitted) >= 1
    /\ splCount >= 1
    /\ emitted[1].bucketKey.minute = 59

\* C3: the fields of an emitted record come only from readings taken before
\* the iteration that detects the transition; the loudness and temperature
\* readings of the detecting iteration influence no field.
C3_Step ==
    emitted' # emitted =>
        LET r == Last(emitted')
            loud == SelectSeq(maxWindow, LAMBDA x : x.it < blocks)
            temp == SelectSeq(tempWindow, LAMBDA x : x.it < blocks)
        IN  /\ r.loudnessSampleCount = Len(window)
            /\ r.avgSplDb = MeanV(window, 0)
            /\ r.maxSplDb = IF loud = <<>> THEN r.avgSplDb ELSE MaxV(loud)
            /\ r.avgCelsius = MeanV(temp, NaN)

C3_OnlyEarlierReadings == [][C3_Step]_vars

\* C4: a bucket into which N >= 1 loudness readings were accumulated is
\* flushed with avgSplDb = their sum / N, loudnessSampleCount = N and
\* maxSplDb = the maximum of those same N readings.
C4_Step ==
    (emitted' # emitted /\ Len(window) >= 1) =>
        LET r == Last(emitted')
        IN  /\ r.loudnessSampleCount = Len(window)
            /\ r.avgSplDb = ToFloat(DDiv(SumV(window), Len(window)))
            /\ r.maxSplDb = MaxV(window)

C4_FlushStatistics == [][C4_Step]_vars

\* C5: at the end of every iteration of an ALIGNED node, splMax is at least
\* every reading accumulated into the open bucket since its reset, and it is
\* the sentinel -999 only when splCount = 0.
C5_MaxCoversBucket ==
    (minuteAligned /\ pc = "top") =>
        /\ \A i \in 1..Len(window) : splMax >= ToFloat(window[i].v)
        /\ splMax = SPL_MAX_SENTINEL => splCount = 0

\* C6: when the clock readings of an ALIGNED node jump from minute M to
\* M+k, k > 1, exactly one record is emitted, keyed M, the open bucket
\* becomes M+k, and no record is ever emitted for the minutes in between.
C6_StallStep ==
    (pc = "roll" /\ clock \div 60 > KeyIdx(BucketKey) + 1) =>
        /\ Len(emitted') = Len(emitted) + 1
        /\ SubSeq(emitted', 1, Len(emitted)) = emitted
        /\ Last(emitted').bucketKey = BucketKey
        /\ BucketKey' = KeyOf(DateTimeOf(clock))

C6_NothingForSkipped ==
    /\ \A i \in 1..Len(emitted) : KeyIdx(emitted[i].bucketKey) \notin skipped
    /\ \A i, j \in 1..Len(emitted) :
          i # j => emitted[i].bucketKey # emitted[j].bucketKey
    /\ minuteAligned => KeyIdx(BucketKey) \notin skipped

C6_StallSkipsAhead == [][C6_StallStep]_vars /\ []C6_NothingForSkipped

C6_Witness ==
    /\ Len(emitted) >= 2
    /\ skipped # {}
    /\ KeyIdx(emitted[2].bucketKey) > KeyIdx(emitted[1].bucketKey) + 1

\* C7: once ALIGNED, with a clock that never runs backwards, a record
\* carries the key of the bucket that was open, the keys a node emits are
\* strictly increasing, and when every minute is observed there is exactly
\* one record for each elapsed minute.
C7_EmitStep ==
    emitted' # emitted =>
        /\ Last(emitted').bucketKey = BucketKey
        /\ Last(emitted').bucketKey # KeyOf(now)

C7_KeysIncrease ==
    /\ \A i, j \in 1..Len(emitted) :
          i < j => KeyIdx(emitted[i].bucketKey) < KeyIdx(emitted[j].bucketKey)
    /\ (minuteAligned /\ emitted # <<>>) =>
          KeyIdx(Last(emitted).bucketKey) < KeyIdx(BucketKey)
    /\ (minuteAligned /\ skipped = {}) =>
          /\ \A i \in 1..Len(emitted) :
                KeyIdx(emitted[i].bucketKey) = alignedAt.t \div 60 + i - 1
          /\ pc \notin {"align", "temp", "roll"} =>
                Len(emitted) = clock \div 60 - alignedAt.t \div 60

C7_OncePerMinute == [][C7_EmitStep]_vars /\ []C7_KeysIncrease

C7_Witness ==
    /\ skipped = {}
    /\ Len(emitted) >= 2
    /\ emitted[1].bucketKey.hour # emitted[2].bucketKey.hour
    /\ pc = "top"

\* C8: the aggregator starts UNALIGNED, becomes ALIGNED only in an iteration
\* whose clock reading has seconds = 0, taking that reading as the open
\* bucket key with a zeroed accumulator, and stays ALIGNED ever after.
C8_AlignStep ==
    /\ (~minuteAligned /\ minuteAligned') =>
          /\ now.second = 0
          /\ BucketKey' = KeyOf(now)
          /\ splSum' = 0 /\ dbfsSum' = 0 /\ splCount' = 0
          /\ splMax' = SPL_MAX_SENTINEL
          /\ tempSumC' = 0 /\ tempCount' = 0
    /\ minuteAligned => minuteAligned'

C8_AlignedOnceAndForAll == ~minuteAligned /\ [][C8_AlignStep]_vars

C8_Witness ==
    /\ minuteAligned
    /\ alignedAt.it > 1
    /\ Len(emitted) >= 1

\* C9: an UNALIGNED node emits no record, and no loudness or temperature
\* reading taken before the aligning iteration enters the sum, count,
\* maximum or temperature average of a record emitted later.
C9_FromAlignmentOn ==
    /\ ~minuteAligned => (emitted = <<>> /\ posts = <<>>)
    /\ minuteAligned =>
          /\ \A i \in 1..Len(window) : window[i].it >= alignedAt.it
          /\ \A i \in 1..Len(maxWindow) : maxWindow[i].it >= alignedAt.it
          /\ \A i \in 1..Len(tempWindow) : tempWindow[i].it >= alignedAt.it

C9_EmitStep ==
    emitted' # emitted =>
        LET r == Last(emitted')
        IN  /\ r.loudnessSampleCount = Len(window)
            /\ r.avgSplDb = MeanV(window, 0)
            /\ r.maxSplDb = IF maxWindow = <<>> THEN r.avgSplDb
                            ELSE MaxV(maxWindow)
            /\ r.avgCelsius = MeanV(tempWindow, NaN)

C9_NothingFromBeforeAlignment == [][C9_EmitStep]_vars /\ []C9_FromAlignmentOn

C9_Witness ==
    /\ alignedAt.it > 1
    /\ Len(emitted) >= 1
    /\ Last(emitted).loudnessSampleCount >= 2

----------------------------------------------------------------------------
(* The holding cell step by step.  onRecv runs in the radio task and loop()  *)
(* in the main task; a struct assignment is not one machine instruction, so  *)
(* it is modelled as two partial copies.                                     *)

\* the fields a struct copy moves first
HeadFields == {FieldNames[i] : i \in 1..8}

\* dst after the first part of the assignment dst = src
CopyHead(dst, src) ==
    [f \in DOMAIN ZeroMsg |-> IF f \in HeadFields THEN src[f] ELSE dst[f]]

\* dst after the second part of the assignment dst = src
CopyTail(dst, src) ==
    [f \in DOMAIN ZeroMsg |-> IF f \in HeadFields THEN dst[f] ELSE src[f]]

\* onRecv up to if (ok): the length dispatch into the local msg
CbStart(n) ==
    /\ cbpc = "idle"
    /\ Len(rx) < MaxRecv
    /\ LET packet == Packet(Len(rx) + 1, n)
       IN  /\ rx' = Append(rx, packet)
           /\ cbMsg' = [ok |-> Accepts(packet), msg |-> Decode(packet)]
           /\ cbpc' = IF Accepts(packet) THEN "enter" ELSE "idle"
    /\ UNCHANGED <<pc, clock, now, uptimeMs, bytes_read, blocks, dbfs_smooth,
                   estSPL, lastTempMs, aggVars, relayVars, posts, drainMarks,
                   forwarded, emitted, window, maxWindow, tempWindow,
                   alignedAt, skipped, remoteMux, i2sRunning, seqno, reconnects,
                   blockedMs>>

\* a callback that does not wait for the spinlock
CbEnterNoLock ==
    /\ cbpc = "enter"
    /\ remoteMux' = "radio"
    /\ cbpc' = "write1"
    /\ UNCHANGED <<pc, clock, now, uptimeMs, bytes_read, blocks, dbfs_smooth,
                   estSPL, lastTempMs, aggVars, relayVars, posts, histVars,
                   cbMsg, i2sRunning, seqno, reconnects, blockedMs>>

\* portENTER_CRITICAL_ISR(&remoteMux)
CbEnter ==
    /\ cbpc = "enter"
    /\ remoteMux = "unlocked"
    /\ remoteMux' = "radio"
    /\ cbpc' = "write1"
    /\ UNCHANGED <<pc, clock, now, uptimeMs, bytes_read, blocks, dbfs_smooth,
                   estSPL, lastTempMs, aggVars, relayVars, posts, histVars,
                   cbMsg, i2sRunning, seqno, reconnects, blockedMs>>

\* remoteLast = msg, first part
CbWriteHead ==
    /\ cbpc = "write1"
    /\ remoteLast' = CopyHead(remoteLast, cbMsg.msg)
    /\ cbpc' = "write2"
    /\ UNCHANGED <<pc, clock, now, uptimeMs, bytes_read, blocks, dbfs_smooth,
                   estSPL, lastTempMs, aggVars, remotePending, msgCopy, posts,
                   histVars, remoteMux, cbMsg, i2sRunning, seqno, reconnects,
                   blockedMs>>

\* remoteLast = msg, second part
CbWriteTail ==
    /\ cbpc = "write2"
    /\ remoteLast' = CopyTail(remoteLast, cbMsg.msg)
    /\ cbpc' = "flag"
    /\ UNCHANGED <<pc, clock, now, uptimeMs, bytes_read, blocks, dbfs_smooth,
                   estSPL, lastTempMs, aggVars, remotePending, msgCopy, posts,
                   histVars, remoteMux, cbMsg, i2sRunning, seqno, reconnects,
                   blockedMs>>

\* remotePending = true
CbSetPending ==
    /\ cbpc = "flag"
    /\ remotePending' = TRUE
    /\ cbpc' = "exit"
    /\ UNCHANGED <<pc, clock, now, uptimeMs, bytes_read, blocks, dbfs_smooth,
                   estSPL, lastTempMs, aggVars, remoteLast, msgCopy, posts,
                   histVars, remoteMux, cbMsg, i2sRunning, seqno, reconnects,
                   blockedMs>>

\* portEXIT_CRITICAL_ISR(&remoteMux)
CbExit ==
    /\ cbpc = "exit"
    /\ remoteMux' = "unlocked"
    /\ cbpc' = "idle"
    /\ UNCHANGED <<pc, clock, now, uptimeMs, bytes_read, blocks, dbfs_smooth,
                   estSPL, lastTempMs, aggVars, relayVars, posts, histVars,
                   cbMsg, i2sRunning, seqno, reconnects, blockedMs>>

\* portENTER_CRITICAL(&remoteMux)
DrainEnter ==
    /\ pc = "drain"
    /\ remoteMux = "unlocked"
    /\ remoteMux' = "loop"
    /\ pc' = "copy1"
    /\ UNCHANGED <<clock, now, uptimeMs, bytes_read, blocks, dbfs_smooth,
                   estSPL, lastTempMs, aggVars, relayVars, posts, histVars,
                   cbpc, cbMsg, i2sRunning, seqno, reconnects, blockedMs>>

\* msgCopy = remoteLast, first part
DrainCopyHead ==
    /\ pc = "copy1"
    /\ msgCopy' = CopyHead(msgCopy, remoteLast)
    /\ pc' = "copy2"
    /\ UNCHANGED <<clock, now, uptimeMs, bytes_read, blocks, dbfs_smooth,
                   estSPL, lastTempMs, aggVars, remotePending, remoteLast,
                   posts, histVars, envVars, blockedMs>>

\* msgCopy = remoteLast, second part
DrainCopyTail ==
    /\ pc = "copy2"
    /\ msgCopy' = CopyTail(msgCopy, remoteLast)
    /\ pc' = "clear"
    /\ UNCHANGED <<clock, now, uptimeMs, bytes_read, blocks, dbfs_smooth,
                   estSPL, lastTempMs, aggVars, remotePending, remoteLast,
                   posts, histVars, envVars, blockedMs>>

\* a copy-out that leaves the flag set
DrainClearKeepFlag ==
    /\ pc = "clear"
    /\ remotePending' = remotePending
    /\ drainMarks' = Append(drainMarks, Len(rx))
    /\ pc' = "unlock"
    /\ UNCHANGED <<clock, now, uptimeMs, bytes_read, blocks, dbfs_smooth,
                   estSPL, lastTempMs, aggVars, remoteLast, msgCopy, posts,
                   rx, forwarded, emitted, window, maxWindow, tempWindow,
                   alignedAt, skipped, envVars, blockedMs>>

\* remotePending = false
DrainClear ==
    /\ pc = "clear"
    /\ remotePending' = FALSE
    /\ drainMarks' = Append(drainMarks, Len(rx))
    /\ pc' = "unlock"
    /\ UNCHANGED <<clock, now, uptimeMs, bytes_read, blocks, dbfs_smooth,
                   estSPL, lastTempMs, aggVars, remoteLast, msgCopy, posts,
                   rx, forwarded, emitted, window, maxWindow, tempWindow,
                   alignedAt, skipped, envVars, blockedMs>>

\* portEXIT_CRITICAL(&remoteMux)
DrainExit ==
    /\ pc = "unlock"
    /\ remoteMux' = "unlocked"
    /\ pc' = "forward"
    /\ UNCHANGED <<clock, now, uptimeMs, bytes_read, blocks, dbfs_smooth,
                   estSPL, lastTempMs, aggVars, relayVars, posts, histVars,
                   cbpc, cbMsg, i2sRunning, seqno, reconnects, blockedMs>>

\* the relay node in its first minute, before the clock shows second 0:
\* the radio task and the main task interleave step by step
StartupSecond == 30

NextMutex ==
    \/ \E n \in PacketFieldCounts : CbStart(n)
    \/ CbEnter
    \/ CbWriteHead
    \/ CbWriteTail
    \/ CbSetPending
    \/ CbExit
    \/ LoopTest
    \/ DrainEnter
    \/ DrainCopyHead
    \/ DrainCopyTail
    \/ DrainClear
    \/ DrainExit
    \/ \E outcome \in ForwardOutcomes : LoopForward(outcome)
    \/ \E block \in SilentBlocks :
            /\ blocks < MaxRelayBlocks
            /\ LoopRead(block, StartupSecond)
    \/ LoopAlign

SpecMutex == Init /\ [][NextMutex]_vars

\* the messages onRecv has accepted so far, whole
AcceptedMessages == {Decode(rx[i]) : i \in AcceptedIn(rx)}

InCriticalRadio == cbpc \in {"write1", "write2", "flag", "exit"}

InCriticalLoop == pc \in {"copy1", "copy2", "clear", "unlock"}

\* C11: under every interleaving of onRecv with loop(), the message copied
\* out of the holding cell and forwarded is one whole accepted message, never
\* a mixture of two, and the two critical sections never overlap.
C11_WholeMessageForwarded ==
    LET accepted == AcceptedMessages
    IN  /\ ~(InCriticalRadio /\ InCriticalLoop)
        /\ pc \in {"clear", "unlock", "forward"} => msgCopy \in accepted
        /\ \A d \in 1..Len(forwarded) : forwarded[d] \in accepted
        /\ \A q \in RemotePosts :
              \E m \in accepted :
                  /\ posts[q].body.ts_utc.minute = m.minute
                  /\ posts[q].body.average_db = m.avg_estSPL
                  /\ posts[q].body.max_db = m.max_estSPL

\* a second message arrives before the main task has finished draining the
\* first; the first is forwarded whole, then the second
C11_Witness ==
    /\ Len(rx) = 2
    /\ AcceptedIn(rx) = {1, 2}
    /\ Len(forwarded) = 2
    /\ forwarded[1] = Decode(rx[1])
    /\ forwarded[2] = Decode(rx[2])
    /\ Len(drainMarks) = 2
    /\ drainMarks[1] = 2

----------------------------------------------------------------------------
(* Properties of the uplink dispatcher *)

\* the relay node whose uploads, of the relayed messages and of its own
\* buckets, meet the link down, a success or a refusal
NextUplink ==
    \/ OnRecv(Len(MinuteMsgLayout))
    \/ LoopTest
    \/ LoopDrain
    \/ \E outcome \in ForwardOutcomes : LoopForward(outcome)
    \/ \E block \in SilentBlocks, t \in MinuteStarts :
            /\ blocks < MaxRelayBlocks
            /\ t <= clock + 60
            /\ LoopRead(block, t)
    \/ LoopAlign
    \/ \E d \in MsSteps : LoopTemp(d, 2150)
    \/ \E outcome \in ForwardOutcomes : LoopRollover(outcome)
    \/ LoopAccumulate

SpecUplink == Init /\ [][NextUplink]_vars

\* the sink's key of a POST: the sensor and the bucket's timestamp
PostKey(q) == <<q.body.sensor_id, q.body.ts_utc>>

\* the key under which a local record, a relayed message is posted
RecordKey(r) ==
    <<SENSOR_ID_327, [year |-> r.bucketKey.year, month |-> r.bucketKey.month,
                      day |-> r.bucketKey.day, hour |-> r.bucketKey.hour,
                      minute |-> r.bucketKey.minute, second |-> 0]>>

MessageKey(m) ==
    <<SENSOR_ID_REMOTE, [year |-> m.year, month |-> m.month, day |-> m.day,
                         hour |-> m.hour, minute |-> m.minute, second |-> 0]>>

\* C12: every completed bucket record and every drained relay message gets
\* at most one POST attempt, made in the step that hands it to the uplink; a
\* POST that fails, is refused or is skipped is never made again, so no
\* record reaches the sink twice.
C12_PostStep ==
    /\ Len(posts') <= Len(posts) + 1
    /\ SubSeq(posts', 1, Len(posts)) = posts
    /\ posts' # posts =>
          \/ /\ emitted' # emitted
             /\ PostKey(Last(posts')) = RecordKey(Last(emitted'))
          \/ /\ forwarded' # forwarded
             /\ PostKey(Last(posts')) = MessageKey(Last(forwarded'))

C12_NoDuplicates ==
    /\ Len(posts) <= Len(emitted) + Len(forwarded)
    /\ \A i, j \in 1..Len(posts) : i # j => PostKey(posts[i]) # PostKey(posts[j])

C12_AtMostOnePost == [][C12_PostStep]_vars /\ []C12_NoDuplicates

\* a local record dropped without a POST and a relayed message whose POST
\* was refused, both followed by later uploads that succeed
C12_Witness ==
    /\ Len(emitted) = 2
    /\ Len(forwarded) = 2
    /\ Len(posts) = 3
    /\ ~posts[1].ok
    /\ posts[1].body.sensor_id = SENSOR_ID_REMOTE
    /\ posts[2].ok /\ posts[3].ok
    /\ PostKey(posts[3]) = RecordKey(emitted[2])
    /\ \A q \in 1..3 : PostKey(posts[q]) # RecordKey(emitted[1])

----------------------------------------------------------------------------
(* The NTP relay sketch (the second sketch of                               *)
(* Code_for_esp32_DANIS_HOUSE_FINAL.ino; JASON_ACTUAL_CODE_FINAL.ino has    *)
(* the same uplink): its uplink reconnects, its clock read can fail, it     *)
(* has no thermistor.                                                       *)

SENSOR_ID_409        == 1
SENSOR_ID_REMOTE_409 == 2
WAIT_MS              == 8000      \* ensureWiFiConnected(uint32_t wait_ms = 8000)
RECONNECT_DELAY_MS   == 100       \* delay(100) after WiFi.disconnect
POLL_MS              == 250       \* delay(250) in the wait loop
NeverUp              == -1

\* ms after WiFi.begin at which the link comes up
LinkUpAfter == {500, 7900, NeverUp}

\* while (WiFi.status() != WL_CONNECTED && (millis() - t0) < wait_ms) delay(250):
\* the ms elapsed when the loop exits
RECURSIVE WaitForLink(_, _)
WaitForLink(upAfter, elapsed) ==
    IF (upAfter # NeverUp /\ upAfter <= elapsed) \/ ~(elapsed < WAIT_MS)
    THEN elapsed
    ELSE WaitForLink(upAfter, elapsed + POLL_MS)

\* ensureWiFiConnected: its result, whether it tried to reconnect, the ms it took
EnsureWiFiConnected(outcome) ==
    IF outcome.wifi
    THEN [ok |-> TRUE, tried |-> FALSE, ms |-> 0]
    ELSE LET waited == WaitForLink(outcome.upAfter, 0)
         IN  [ok |-> (outcome.upAfter # NeverUp /\ outcome.upAfter <= waited),
              tried |-> TRUE,
              ms |-> RECONNECT_DELAY_MS + waited]

\* what one call of this sketch's uploadToSupabase can meet
NtpOutcomes ==
    { [wifi |-> TRUE, upAfter |-> 0, begin |-> TRUE, code |-> c, ms |-> POST_MS] :
          c \in {201, 500} }
    \cup { [wifi |-> FALSE, upAfter |-> u, begin |-> TRUE, code |-> 201,
            ms |-> POST_MS] : u \in LinkUpAfter }

\* uploadToSupabase of this sketch: the POST log after the call
UploadToSupabaseNtp(outcome, sensor_id, t, average_db, max_db, celsius) ==
    IF ~EnsureWiFiConnected(outcome).ok THEN posts
    ELSE IF ~outcome.begin THEN posts
    ELSE Append(posts, [body |-> Body(sensor_id, t, average_db, max_db, celsius),
                        code |-> outcome.code,
                        ok |-> (outcome.code = 201 \/ outcome.code = 204)])

\* the ms the call blocks
UploadMsNtp(outcome) ==
    LET link == EnsureWiFiConnected(outcome)
    IN  link.ms + (IF link.ok /\ outcome.begin THEN outcome.ms ELSE 0)

\* forward the copied relay message to the sink
LoopForwardNtp(outcome) ==
    /\ pc = "forward"
    /\ posts' = UploadToSupabaseNtp(outcome, SENSOR_ID_REMOTE_409, msgCopy,
                                    msgCopy.avg_estSPL, msgCopy.max_estSPL,
                                    msgCopy.temp_c)
    /\ forwarded' = Append(forwarded, msgCopy)
    /\ reconnects' = reconnects + (IF EnsureWiFiConnected(outcome).tried THEN 1 ELSE 0)
    /\ blockedMs' = blockedMs + UploadMsNtp(outcome)
    /\ pc' = "read"
    /\ UNCHANGED <<clock, now, uptimeMs, bytes_read, blocks, dbfs_smooth,
                   estSPL, lastTempMs, aggVars, relayVars, rx, drainMarks,
                   emitted, window, maxWindow, tempWindow, alignedAt, skipped,
                   cbVars, i2sRunning, seqno>>

\* i2s_read, the loudness estimate, the running maximum and getLocalYMDHMS
LoopReadNtp(block, timeOk, t) ==
    /\ pc = "read"
    /\ i2sRunning
    /\ bytes_read' = block.bytes_read
    /\ IF block.err # "ESP_OK" \/ block.bytes_read = 0
       THEN /\ pc' = "top"
            /\ UNCHANGED <<clock, now, blocks, dbfs_smooth, estSPL, splMax,
                           maxWindow, skipped, blockedMs>>
       ELSE /\ blocks < MaxBlocks
            /\ t >= clock
            /\ LET smooth == Smooth(dbfs_smooth, Dbfs(Rms(block)))
                   spl == EstSPL(smooth)
               IN  /\ dbfs_smooth' = smooth
                   /\ estSPL' = spl
                   /\ splMax' = IF ToFloat(spl) > splMax THEN ToFloat(spl)
                                ELSE splMax
                   /\ maxWindow' = Append(maxWindow,
                                          [it |-> blocks + 1, v |-> spl,
                                           rms |-> Rms(block),
                                           dbfs |-> Dbfs(Rms(block))])
            /\ blocks' = blocks + 1
            /\ IF timeOk
               THEN /\ clock' = t
                    /\ now' = DateTimeOf(t)
                    /\ blockedMs' = 0
                    /\ skipped' = IF minuteAligned
                                  THEN skipped \cup
                                       ((clock \div 60 + 1) .. (t \div 60 - 1))
                                  ELSE skipped
                    /\ pc' = "align"
               ELSE /\ pc' = "top"
                    /\ UNCHANGED <<clock, now, blockedMs, skipped>>
    /\ UNCHANGED <<uptimeMs, lastTempMs, minuteAligned, bucketYear, bucketMonth,
                   bucketDay, bucketHour, bucketMinute, splSum, dbfsSum,
                   splCount, tempSumC, tempCount, relayVars, posts, rx,
                   drainMarks, forwarded, emitted, window, tempWindow,
                   alignedAt, envVars>>

\* if (!minuteAligned) ...
LoopAlignNtp ==
    /\ pc = "align"
    /\ IF ~minuteAligned
       THEN IF AtMinuteStart(now)
            THEN /\ minuteAligned' = TRUE
                 /\ OpenBucket(now)
                 /\ ZeroAccumulator
                 /\ alignedAt' = [it |-> blocks, t |-> clock]
                 /\ pc' = "roll"
            ELSE /\ pc' = "top"
                 /\ UNCHANGED <<aggVars, window, maxWindow, tempWindow,
                                alignedAt>>
       ELSE /\ pc' = "roll"
            /\ UNCHANGED <<aggVars, window, maxWindow, tempWindow, alignedAt>>
    /\ UNCHANGED <<clock, now, uptimeMs, bytes_read, blocks, dbfs_smooth,
                   estSPL, lastTempMs, relayVars, posts, rx, drainMarks,
                   forwarded, emitted, skipped, envVars, blockedMs>>

\* the rollover check: flush the open bucket, without a temperature
LoopRolloverNtp(outcome) ==
    /\ pc = "roll"
    /\ IF RolloverDetected(now)
       THEN /\ LET rec == [CompletedBucketRecord EXCEPT !.avgCelsius = NaN]
               IN  /\ posts' = UploadToSupabaseNtp(outcome, SENSOR_ID_409,
                                                   rec.bucketKey, rec.avgSplDb,
                                                   rec.maxSplDb, NaN)
                   /\ emitted' = Append(emitted, rec)
            /\ reconnects' = reconnects +
                                (IF EnsureWiFiConnected(outcome).tried THEN 1 ELSE 0)
            /\ blockedMs' = blockedMs + UploadMsNtp(outcome)
            /\ OpenBucket(now)
            /\ ZeroAccumulator
       ELSE UNCHANGED <<posts, emitted, bucketYear, bucketMonth, bucketDay,
                        bucketHour, bucketMinute, splSum, dbfsSum, splCount,
                        splMax, tempSumC, tempCount, window, maxWindow,
                        tempWindow, blockedMs, reconnects>>
    /\ pc' = "accum"
    /\ UNCHANGED <<clock, now, uptimeMs, bytes_read, blocks, dbfs_smooth,
                   estSPL, lastTempMs, minuteAligned, relayVars, rx,
                   drainMarks, forwarded, alignedAt, skipped, cbVars,
                   i2sRunning, seqno>>

NextNtp ==
    \/ OnRecv(Len(MinuteMsgLayout))
    \/ LoopTest
    \/ LoopDrain
    \/ \E outcome \in NtpOutcomes : LoopForwardNtp(outcome)
    \/ \E block \in SilentBlocks, timeOk \in BOOLEAN, t \in MinuteStarts :
            /\ blocks < MaxRelayBlocks
            /\ t <= clock + 60
            /\ LoopReadNtp(block, timeOk, t)
    \/ LoopAlignNtp
    \/ \E outcome \in NtpOutcomes : LoopRolloverNtp(outcome)
    \/ LoopAccumulate

SpecNtp == Init /\ [][NextNtp]_vars

\* C13: before every POST the uplink checks the link; when it is down the
\* uplink makes one blocking reconnect attempt of bounded duration, and it
\* drops the record without a POST only if the link is still down after
\* that attempt: on every sketch that uploads.
C13_UploadStep ==
    (emitted' # emitted \/ forwarded' # forwarded) =>
        /\ posts' = posts =>
              /\ reconnects' = reconnects + 1
              /\ blockedMs' - blockedMs <= RECONNECT_DELAY_MS + WAIT_MS
        /\ reconnects' \in {reconnects, reconnects + 1}

C13_ReconnectBeforeDrop == [][C13_UploadStep]_vars

----------------------------------------------------------------------------
(* The flush computation on its own: the rollover check applied to          *)
(* accumulator values drawn from a bounded set, the empty ones included.    *)

MaxFlushCount == 2      \* readings and temperature samples in a drawn accumulator

\* loudness readings the drawn accumulators hold
FlushReadings == {1598, 5000}

\* accumulator values: n equal readings v, the running maximum either never
\* raised or raised to a reading, k temperature samples of 21.5 C
FlushAccumulators ==
    { [splSum |-> n * v, dbfsSum |-> n * (v - SPL_OFFSET - CAL_OFFSET_DB),
       splCount |-> n, splMax |-> m, tempSumC |-> k * 2150, tempCount |-> k] :
         n \in 0..MaxFlushCount, v \in FlushReadings,
         m \in {SPL_MAX_SENTINEL} \cup {ToFloat(x) : x \in FlushReadings},
         k \in 0..MaxFlushCount }

\* an ALIGNED node at its rollover check, the clock one minute past the open key
InitFlush ==
    /\ pc = "roll"
    /\ clock = 60
    /\ now = DateTimeOf(60)
    /\ uptimeMs = U32(0)
    /\ bytes_read = 2048
    /\ blocks = 1
    /\ dbfs_smooth = Smooth(DBFS_SMOOTH_INIT, DBFS_FLOOR)
    /\ estSPL = EstSPL(Smooth(DBFS_SMOOTH_INIT, DBFS_FLOOR))
    /\ minuteAligned = TRUE
    /\ bucketYear = Epoch.year /\ bucketMonth = Epoch.month
    /\ bucketDay = Epoch.day /\ bucketHour = Epoch.hour
    /\ bucketMinute = Epoch.minute
    /\ \E a \in FlushAccumulators :
          /\ splSum = a.splSum /\ dbfsSum = a.dbfsSum /\ splCount = a.splCount
          /\ splMax = a.splMax
          /\ tempSumC = a.tempSumC /\ tempCount = a.tempCount
    /\ lastTempMs = U32(0)
    /\ remotePending = FALSE
    /\ remoteLast = ZeroMsg
    /\ msgCopy = ZeroMsg
    /\ posts = <<>>
    /\ rx = <<>> /\ drainMarks = <<>> /\ forwarded = <<>> /\ emitted = <<>>
    /\ window = <<>> /\ maxWindow = <<>> /\ tempWindow = <<>>
    /\ alignedAt = [it |-> 0, t |-> 0]
    /\ skipped = {}
    /\ remoteMux = "unlocked"
    /\ cbpc = "idle"
    /\ cbMsg = [ok |-> FALSE, msg |-> ZeroMsg]
    /\ i2sRunning = TRUE
    /\ reconnects = 0
    /\ seqno = U32(0)
    /\ blockedMs = 0

NextFlush ==
    \/ \E outcome \in LinkOutcomes : LoopRollover(outcome)
    \/ LoopAccumulate
    \/ LoopTest

SpecFlush == InitFlush /\ [][NextFlush]_vars

\* C14 as stated: a flush whose loudness count is 0 divides nothing and
\* yields avgSplDb = 0.0, avgDbfs = -120.0 and maxSplDb = avgSplDb, never NaN;
\* a flush whose temperature count is 0 yields an absent temperature.
C14_StatedStep ==
    emitted' # emitted =>
        LET r == Last(emitted')
        IN  /\ splCount = 0 =>
                  /\ r.avgSplDb = 0
                  /\ r.avgDbfs = DBFS_FLOOR
                  /\ r.maxSplDb = r.avgSplDb
            /\ tempCount = 0 => IsNaN(r.avgCelsius)

C14_AmendedStep ==
    emitted' # emitted =>
        LET r == Last(emitted')
        IN  /\ splCount = 0 =>
                  /\ r.avgSplDb = 0
                  /\ r.avgDbfs = DBFS_FLOOR
                  /\ r.maxSplDb = IF splMax < SPL_MAX_UNSET_BELOW
                                  THEN r.avgSplDb ELSE splMax
            /\ ~IsNaN(r.avgSplDb) /\ ~IsNaN(r.avgDbfs) /\ ~IsNaN(r.maxSplDb)
            /\ r.loudnessSampleCount = splCount
            /\ tempCount = 0 => IsNaN(r.avgCelsius)
            /\ tempCount > 0 => ~IsNaN(r.avgCelsius)
            /\ (posts' # posts /\ tempCount = 0) =>
                  "celsius" \notin DOMAIN Last(posts').body

----------------------------------------------------------------------------
(* The posted row *)

\* the packet whose message the d-th drain copied out
DrainedPacket(d) == rx[SetMax(AcceptedUpTo(drainMarks[d]))]

HasCelsius(q) == "celsius" \in DOMAIN q.body

\* C15: the posted row has a celsius field iff the record has a valid
\* (non-NaN) temperature average, and then it is that average; a local
\* bucket without a valid temperature sample and a relayed message of the
\* shorter wire version are posted without celsius.
C15_PostStep ==
    /\ (posts' # posts /\ emitted' # emitted) =>
          /\ HasCelsius(Last(posts')) <=> ~IsNaN(Last(emitted').avgCelsius)
          /\ HasCelsius(Last(posts')) <=> tempCount > 0
          /\ HasCelsius(Last(posts')) =>
                Last(posts').body.celsius = Last(emitted').avgCelsius
    /\ (posts' # posts /\ forwarded' # forwarded) =>
          /\ HasCelsius(Last(posts')) <=> ~IsNaN(msgCopy.temp_c)
          /\ HasCelsius(Last(posts')) <=>
                DrainedPacket(Len(drainMarks)).len = SizeofMinuteMsg
          /\ HasCelsius(Last(posts')) =>
                Last(posts').body.celsius = DrainedPacket(Len(drainMarks)).fields[13]

C15_NoNaNPosted ==
    \A q \in 1..Len(posts) : HasCelsius(posts[q]) => ~IsNaN(posts[q].body.celsius)

C15_CelsiusIffValid == [][C15_PostStep]_vars /\ []C15_NoNaNPosted

\* rows of all kinds have been posted: a local bucket without temperature, a
\* relayed message of the shorter version, and rows with celsius
C15_Witness ==
    /\ \E q \in 1..Len(posts) :
          posts[q].body.sensor_id = SENSOR_ID_327 /\ ~HasCelsius(posts[q])
    /\ \E q \in 1..Len(posts) :
          posts[q].body.sensor_id = SENSOR_ID_327 /\ HasCelsius(posts[q])
    /\ \E d \in 1..Len(forwarded) :
          /\ DrainedPacket(d).len = SizeofMinuteMsgV1
          /\ \E q \in RemotePosts :
                /\ PostKey(posts[q]) = MessageKey(forwarded[d])
                /\ ~HasCelsius(posts[q])
    /\ \E q \in RemotePosts : HasCelsius(posts[q])

----------------------------------------------------------------------------
(* Frame conditions *)

\* C16: an iteration whose audio read fails or returns zero bytes ends at
\* once: the smoothing state, the bucket accumulator, the open bucket key
\* and the alignment state are unchanged, no local record is emitted, and
\* the next iteration reads again.
C16_FailedReadStep ==
    (pc = "read" /\ pc' = "top") =>
        /\ bytes_read' = 0
        /\ dbfs_smooth' = dbfs_smooth
        /\ estSPL' = estSPL
        /\ aggVars' = aggVars
        /\ BucketKey' = BucketKey
        /\ emitted' = emitted
        /\ posts' = posts
        /\ blocks' = blocks
        /\ <<clock, now, uptimeMs, lastTempMs>>' = <<clock, now, uptimeMs, lastTempMs>>

\* between the read and the end of the iteration a block is being processed
C16_ProcessingHasBlock ==
    pc \in {"align", "temp", "roll", "accum"} => bytes_read > 0

C16_FailedReadSkipsIteration ==
    [][C16_FailedReadStep]_vars /\ []C16_ProcessingHasBlock

\* an ALIGNED node with readings in its bucket has just had a read fail, and
\* has emitted a record before
C16_Witness ==
    /\ pc = "top"
    /\ bytes_read = 0
    /\ minuteAligned
    /\ splCount >= 1
    /\ Len(emitted) >= 1

----------------------------------------------------------------------------
(* The transmitter sketch (esp32_the_store_famous.ino): the same loudness    *)
(* pipeline and minute buckets, a thermistor read through a burst of ADC     *)
(* samples, and a MinuteMsg sent over the radio at each rollover             *)

VCC_MV        == 3300        \* VCC = 3.300f
R_FIXED       == 12000
R0_OHMS       == 12000
ADC_SAMPLES   == 32
ADC_MAX_RAW   == 4095        \* ADC_WIDTH_BIT_12
ADC_ERROR     == -1          \* adc1_get_raw() on a failed conversion

\* bursts of ADC_SAMPLES raw conversions: a rail-low pin, a mid-scale pin, a
\* rail-high pin, and a burst whose fifth conversion fails
AdcBursts ==
    {[i \in 1..ADC_SAMPLES |-> r] : r \in {0, 2048, ADC_MAX_RAW}}
        \cup {[i \in 1..ADC_SAMPLES |-> IF i = 5 THEN ADC_ERROR ELSE 2048]}

\* what esp_adc_cal_raw_to_voltage() can hand back, in mV
CalibratedMillivolts == {0, 60, 142, 1792, 3134, 3300}

\* the loop of readNodeVolts_Legacy(): the sum of the burst, or NaN at the
\* first negative conversion
RECURSIVE BurstSum(_, _, _)
BurstSum(burst, i, sum) ==
    IF i > ADC_SAMPLES THEN sum
    ELSE IF burst[i] < 0 THEN NaN
    ELSE BurstSum(burst, i + 1, sum + burst[i])

rawAvg(burst) ==
    LET sum == BurstSum(burst, 1, 0)
    IN  IF IsNaN(sum) THEN NaN ELSE sum \div ADC_SAMPLES

\* readNodeVolts_Legacy(), in mV: mv is the calibration of rawAvg
readNodeVolts_Legacy(burst, mv) ==
    IF IsNaN(rawAvg(burst)) THEN NaN ELSE mv

\* voltsToRtherm(), in ohms; NaN compares false, so a NaN voltage goes on
voltsToRtherm(v) ==
    IF IsNaN(v) THEN NaN
    ELSE IF v <= 1 \/ v >= VCC_MV - 1 THEN NaN
    ELSE (2 * R_FIXED * v + (VCC_MV - v)) \div (2 * (VCC_MV - v))

\* rToCelsius_Beta() with BETA 3950, T0_C 22.2, at the resistances that the
\* voltages of CalibratedMillivolts give, in hundredths of a degree
rToCelsius_Beta(r) ==
    CASE r = 222    -> 14774
      [] r = 540    -> 11139
      [] r = 14260  -> 1844
      [] r = 226554 -> -3100

\* readThermistorC()
readThermistorC(burst, mv) ==
    LET v == readNodeVolts_Legacy(burst, mv)
        r == voltsToRtherm(v)
    IN  IF IsNaN(r) THEN NaN
        ELSE LET tc == rToCelsius_Beta(r)
             IN  IF tc < TEMP_MIN_C \/ tc > TEMP_MAX_C THEN NaN ELSE tc

\* i2s_read and the loudness estimate; the clock is read after the sampler
StoreRead(block) ==
    /\ pc = "top"
    /\ i2sRunning
    /\ bytes_read' = block.bytes_read
    /\ IF block.err # "ESP_OK" \/ block.bytes_read = 0
       THEN /\ pc' = "top"
            /\ UNCHANGED <<blocks, dbfs_smooth, estSPL, splMax, maxWindow>>
       ELSE /\ blocks < MaxBlocks
            /\ LET smooth == Smooth(dbfs_smooth, Dbfs(Rms(block)))
                   spl == EstSPL(smooth)
               IN  /\ dbfs_smooth' = smooth
                   /\ estSPL' = spl
                   /\ splMax' = IF ToFloat(spl) > splMax THEN ToFloat(spl)
                                ELSE splMax
                   /\ maxWindow' = Append(maxWindow,
                                          [it |-> blocks + 1, v |-> spl,
                                           rms |-> Rms(block),
                                           dbfs |-> Dbfs(Rms(block))])
            /\ blocks' = blocks + 1
            /\ pc' = "temp"
    /\ UNCHANGED <<clock, now, uptimeMs, lastTempMs, minuteAligned, bucketYear,
                   bucketMonth, bucketDay, bucketHour, bucketMinute, splSum,
                   dbfsSum, splCount, tempSumC, tempCount, relayVars, posts,
                   rx, drainMarks, forwarded, emitted, window, tempWindow,
                   alignedAt, skipped, envVars, blockedMs>>

\* the temperature sample of the transmitter: accumulated unless NaN
StoreTemp(d, burst, mv) ==
    /\ pc = "temp"
    /\ LET ms == U32Add(uptimeMs, d)
           tC == readThermistorC(burst, mv)
       IN  /\ uptimeMs' = ms
           /\ IF U32GeSmall(U32Sub(ms, lastTempMs), TEMP_SAMPLE_PERIOD_MS)
              THEN /\ lastTempMs' = ms
                   /\ IF ~IsNaN(tC)
                      THEN /\ tempSumC' = tempSumC + tC
                           /\ tempCount' = tempCount + 1
                           /\ tempWindow' = Append(tempWindow,
                                  [it |-> blocks, v |-> tC,
                                   raw |-> rawAvg(burst), mv |-> mv])
                      ELSE UNCHANGED <<tempSumC, tempCount, tempWindow>>
              ELSE UNCHANGED <<lastTempMs, tempSumC, tempCount, tempWindow>>
    /\ pc' = "align"
    /\ UNCHANGED <<clock, now, bytes_read, blocks, dbfs_smooth, estSPL,
                   minuteAligned, bucketYear, bucketMonth, bucketDay,
                   bucketHour, bucketMinute, splSum, dbfsSum, splCount, splMax,
                   relayVars, posts, rx, drainMarks, forwarded, emitted,
                   window, maxWindow, alignedAt, skipped, envVars, blockedMs>>

\* DateTime now = rtc.now(); if (!minuteAligned) ...
StoreAlign(t) ==
    /\ pc = "align"
    /\ t >= clock
    /\ clock' = t
    /\ now' = DateTimeOf(t)
    /\ IF ~minuteAligned
       THEN IF AtMinuteStart(DateTimeOf(t))
            THEN /\ minuteAligned' = TRUE
                 /\ OpenBucket(DateTimeOf(t))
                 /\ ZeroAccumulator
                 /\ alignedAt' = [it |-> blocks, t |-> t]
                 /\ pc' = "roll"
            ELSE /\ pc' = "top"
                 /\ UNCHANGED <<aggVars, window, maxWindow, tempWindow,
                                alignedAt>>
       ELSE /\ pc' = "roll"
            /\ UNCHANGED <<aggVars, window, maxWindow, tempWindow, alignedAt>>
    /\ UNCHANGED <<uptimeMs, bytes_read, blocks, dbfs_smooth, estSPL,
                   lastTempMs, relayVars, posts, rx, drainMarks, forwarded,
                   emitted, skipped, envVars, blockedMs>>

\* uint32_t node_id = macToId(mymac), of the one transmitter
NODE_ID == 7

\* a counter that hands out its value before the increment
PostIncrement(s) == s

\* ++seqno
PreIncrement(s) == U32Add(s, 1)

\* the MinuteMsg of the open bucket, with the return code of esp_now_send
StoreRecord(seq, send_ret) ==
    [bucketKey |-> BucketKey, avgSplDb |-> avgSPL_1min,
     maxSplDb |-> maxSPL_1min, avgDbfs |-> avgDBFS_1min,
     loudnessSampleCount |-> splCount, avgCelsius |-> avgTempC_1min,
     node_id |-> NODE_ID, seq |-> seq, send_ret |-> send_ret]

\* the rollover check of the transmitter: the MinuteMsg of the open bucket is
\* numbered and handed to esp_now_send (recorded in emitted with what the
\* send returns), and the next bucket opens
StoreRollover(send_ret) ==
    /\ pc = "roll"
    /\ IF RolloverDetected(now)
       THEN /\ seqno' = PreIncrement(seqno)
            /\ emitted' = Append(emitted, StoreRecord(seqno', send_ret))
            /\ OpenBucket(now)
            /\ ZeroAccumulator
       ELSE UNCHANGED <<emitted, seqno, bucketYear, bucketMonth, bucketDay,
                        bucketHour, bucketMinute, splSum, dbfsSum, splCount,
                        splMax, tempSumC, tempCount, window, maxWindow,
                        tempWindow>>
    /\ pc' = "accum"
    /\ UNCHANGED <<clock, now, uptimeMs, bytes_read, blocks, dbfs_smooth,
                   estSPL, lastTempMs, minuteAligned, relayVars, posts, rx,
                   drainMarks, forwarded, alignedAt, skipped, cbVars,
                   i2sRunning, reconnects, blockedMs>>

\* what esp_now_send can return
SendReturns == {"ESP_OK", "ESP_ERR_ESPNOW_NO_MEM"}

NextStore ==
    \/ \E block \in SilentBlocks :
            /\ block.err = "ESP_OK" => blocks < MaxRelayBlocks
            /\ StoreRead(block)
    \/ \E d \in {125, 250}, burst \in AdcBursts, mv \in CalibratedMillivolts :
           StoreTemp(d, burst, mv)
    \/ \E t \in MinuteStarts : t <= clock + 60 /\ StoreAlign(t)
    \/ \E r \in SendReturns : StoreRollover(r)
    \/ LoopAccumulate

SpecStore == Init /\ [][NextStore]_vars

\* a raw conversion at either rail of the converter
AdcSaturated(raw) == raw <= 0 \/ raw >= ADC_MAX_RAW

\* C17: a temperature sample that is NaN, outside -40..125 degrees C, or
\* taken from a saturated ADC reading is not accumulated: tempSumC and
\* tempCount are the sum and the number of the valid samples taken since the
\* reset, each at its own measured value.
C17_OnlyValidSamplesAccumulated ==
    /\ tempCount = Len(tempWindow)
    /\ tempSumC = SumV(tempWindow)
    /\ \A i \in 1..Len(tempWindow) :
           LET x == tempWindow[i]
           IN  /\ ~IsNaN(x.v)
               /\ x.v >= TEMP_MIN_C /\ x.v <= TEMP_MAX_C
               /\ x.v = rToCelsius_Beta(voltsToRtherm(x.mv))
               /\ ~AdcSaturated(x.raw)

----------------------------------------------------------------------------
(* Startup of the relay in real time: setup() ends during second 0 of the    *)
(* Epoch minute, and a clock read shows the second that the time spent       *)
(* since the previous read has led to                                        *)

SLOW_POST_MS == 2000      \* a POST whose TLS handshake and reply take 2 s

StartupOutcomes ==
    ForwardOutcomes
        \cup {[wifi |-> TRUE, begin |-> TRUE, code |-> 201, ms |-> SLOW_POST_MS]}

\* the seconds the model looks at: around the minute starts
StartupSeconds == {0, 1, 59, 60, 61, 119, 120}

NextMinuteStart(t) == (t \div 60 + 1) * 60

\* the seconds rtc.now() can show at this read.  After a blocking call of
\* blockedMs the clock is that much further, to within the fraction of the
\* second the previous read fell in.  Iterations that block nowhere last one
\* audio block (32 ms) and the delay(20): between two reads shown here they
\* see every second, so they can reach the next minute start, not pass it.
ReadableSeconds ==
    IF blockedMs > 0 \/ now = NoTime
    THEN {clock + blockedMs \div 1000, clock + blockedMs \div 1000 + 1}
    ELSE {t \in StartupSeconds : t >= clock /\ t <= NextMinuteStart(clock)}

NextStartup ==
    \/ OnRecv(Len(MinuteMsgLayout))
    \/ LoopTest
    \/ LoopDrain
    \/ \E outcome \in StartupOutcomes : LoopForward(outcome)
    \/ \E block \in SilentBlocks, t \in ReadableSeconds :
            /\ blocks < MaxRelayBlocks
            /\ LoopRead(block, t)
    \/ LoopAlign
    \/ \E d \in MsSteps : LoopTemp(d, 2150)
    \/ \E outcome \in LinkOutcomes : outcome.wifi /\ LoopRollover(outcome)
    \/ LoopAccumulate

SpecStartup == Init /\ [][NextStartup]_vars

\* C18: a node whose clock advances is ALIGNED less than one minute after
\* its main loop starts (here: during second 0), whatever the loop does in
\* that minute: no iteration ends UNALIGNED with the clock 60 s or more on.
C18_AlignedWithinOneMinute ==
    (pc = "top" /\ ~minuteAligned) => clock < 60

----------------------------------------------------------------------------
(* Progress of the main loop.  i2s_read is called with portMAX_DELAY: it     *)
(* returns when the driver has a DMA buffer to hand over, and waits for one  *)
(* as long as it takes.                                                      *)

\* the I2S peripheral stops filling DMA buffers (clock or DMA fault)
I2SStall ==
    /\ i2sRunning
    /\ i2sRunning' = FALSE
    /\ UNCHANGED <<pc, clock, now, uptimeMs, bytes_read, blocks, dbfs_smooth,
                   estSPL, lastTempMs, aggVars, relayVars, posts, histVars,
                   cbVars, reconnects, seqno, blockedMs>>

\* the steps of loop(), each taken once it can be
LoopStep ==
    \/ LoopTest
    \/ \E block \in AudioBlocks, t \in MinuteStarts :
            /\ block.sample = 0
            /\ block.err = "ESP_OK" => blocks < MaxRelayBlocks /\ t <= clock + 60
            /\ LoopRead(block, t)
    \/ LoopAlign
    \/ \E d \in MsSteps : LoopTemp(d, 2150)
    \/ \E outcome \in ForwardOutcomes : LoopRollover(outcome)
    \/ LoopAccumulate

NextLoop == LoopStep \/ I2SStall

\* the scheduler runs loop() again and again: a step that stays possible is
\* taken
SpecLoop == Init /\ [][NextLoop]_vars /\ WF_vars(LoopStep)

\* C19: every main-loop iteration eventually completes: the loop is back at
\* its top again and again, each blocking operation returning or failing
\* after a bounded wait.
C19_IterationCompletes == []<>(pc = "top")

----------------------------------------------------------------------------
(* The smoothing state *)

\* the instantaneous levels a block can have, in hundredths of a dB
InstantLevels == {DBFS_FLOOR, -6000, 0}

\* C20: dbfs_smooth starts at -90.0 and changes only by
\* smoothed = 0.85 * previous + 0.15 * instant, once per successfully read
\* audio block, ALIGNED or not; alignment and rollover leave it alone.
C20_SmoothStep ==
    /\ blocks' = blocks + 1 =>
          /\ pc = "read"
          /\ \E inst \in InstantLevels :
                Abs(100 * dbfs_smooth' - (85 * dbfs_smooth + 15 * inst)) <= 50
    /\ blocks' = blocks => dbfs_smooth' = dbfs_smooth
    /\ blocks' \in {blocks, blocks + 1}

C20_StartsAtInit == blocks = 0 => dbfs_smooth = DBFS_SMOOTH_INIT

C20_SmoothingOnlyByUpdate == [][C20_SmoothStep]_vars /\ []C20_StartsAtInit

\* an ALIGNED node that has flushed a bucket and whose smoothing state has
\* moved through blocks read before and after the alignment
C20_Witness ==
    /\ minuteAligned
    /\ Len(emitted) >= 1
    /\ blocks > alignedAt.it
    /\ alignedAt.it > 1
    /\ dbfs_smooth # DBFS_SMOOTH_INIT

----------------------------------------------------------------------------
(* Levels: a node that has not aligned yet (the clock shows second 30) and   *)
(* reads blocks of every kind                                                *)

\* a full block of 512 frames of one magnitude: silence, a frame whose top 24
\* bits are 0, frames of 1, -1, 2, a thousandth of full scale, full scale;
\* a read of 3 bytes (no whole sample); a failed read
LevelBlocks ==
    { [err |-> "ESP_OK", bytes_read |-> 2048, sample |-> x] :
         x \in {0, 255, 256, -1, 512, 2147328, -2147483600} }
      \cup { [err |-> "ESP_OK", bytes_read |-> 3, sample |-> 0],
             [err |-> "ESP_FAIL", bytes_read |-> 0, sample |-> 0] }

NextLevel ==
    \/ LoopTest
    \/ \E block \in LevelBlocks :
            /\ blocks < MaxRelayBlocks
            /\ LoopRead(block, StartupSecond)
    \/ LoopAlign

SpecLevel == Init /\ [][NextLevel]_vars

\* C21: for every block whose rms is <= 1.0, an all-zero block and a block
\* of no whole sample included, the instantaneous dBFS is exactly -120.0,
\* and for no block is it -Infinity or NaN.
C21_FloorAtOrBelowOne ==
    \A i \in 1..Len(maxWindow) :
        LET x == maxWindow[i]
        IN  /\ (IsNaN(x.rms) \/ x.rms <= 1) => x.dbfs = DBFS_FLOOR
            /\ ~IsNaN(x.dbfs)
            /\ x.dbfs # NegInf

\* blocks of silence, of no whole sample and of rms exactly 1.0 have been read
C21_Witness ==
    /\ \E i \in 1..Len(maxWindow) : maxWindow[i].rms = 0
    /\ \E i \in 1..Len(maxWindow) : IsNaN(maxWindow[i].rms)
    /\ \E i \in 1..Len(maxWindow) : maxWindow[i].rms = 1

----------------------------------------------------------------------------
(* The millisecond counter at its wraparound: an ALIGNED node, 49.7 days     *)
(* after power-up, one reading into the bucket of the Epoch minute           *)

\* millis() at the start: 2^32 - 300, 2^32 - 200, 2^32 - 100
WrapUptimes == {[hi |-> Half - 1, lo |-> Half - k] : k \in {100, 200, 300}}

\* how long before that the last temperature sample was taken, in ms
WrapSampleAges == {0, 125, 200}

\* time between two reads of millis() in this run
WrapMsSteps == {60, 125, 250}

InitWrap ==
    /\ pc = "top"
    /\ clock = StartupSecond
    /\ now = DateTimeOf(StartupSecond)
    /\ \E u \in WrapUptimes, age \in WrapSampleAges :
          /\ uptimeMs = u
          /\ lastTempMs = [hi |-> u.hi, lo |-> u.lo - age]
    /\ bytes_read = 2048
    /\ blocks = 1
    /\ dbfs_smooth = Smooth(DBFS_SMOOTH_INIT, DBFS_FLOOR)
    /\ estSPL = EstSPL(Smooth(DBFS_SMOOTH_INIT, DBFS_FLOOR))
    /\ minuteAligned = TRUE
    /\ bucketYear = Epoch.year /\ bucketMonth = Epoch.month
    /\ bucketDay = Epoch.day /\ bucketHour = Epoch.hour
    /\ bucketMinute = Epoch.minute
    /\ splSum = estSPL /\ dbfsSum = dbfs_smooth /\ splCount = 1
    /\ splMax = ToFloat(estSPL)
    /\ tempSumC = 0 /\ tempCount = 0
    /\ remotePending = FALSE
    /\ remoteLast = ZeroMsg
    /\ msgCopy = ZeroMsg
    /\ posts = <<>>
    /\ rx = <<>> /\ drainMarks = <<>> /\ forwarded = <<>> /\ emitted = <<>>
    /\ window = <<[it |-> 1, v |-> estSPL]>>
    /\ maxWindow = <<[it |-> 1, v |-> estSPL, rms |-> 0, dbfs |-> DBFS_FLOOR]>>
    /\ tempWindow = <<>>
    /\ alignedAt = [it |-> 0, t |-> 0]
    /\ skipped = {}
    /\ remoteMux = "unlocked"
    /\ cbpc = "idle"
    /\ cbMsg = [ok |-> FALSE, msg |-> ZeroMsg]
    /\ i2sRunning = TRUE
    /\ reconnects = 0
    /\ seqno = U32(0)
    /\ blockedMs = 0

NextWrap ==
    \/ LoopTest
    \/ \E block \in SilentBlocks : LoopRead(block, StartupSecond)
    \/ LoopAlign
    \/ \E d \in WrapMsSteps, tC \in ThermistorReadings : LoopTemp(d, tC)
    \/ \E outcome \in LinkOutcomes : LoopRollover(outcome)
    \/ LoopAccumulate

SpecWrap == InitWrap /\ [][NextWrap]_vars

\* a counter value of this run as its distance in ms from the wraparound:
\* negative before it, from 0 after it
FromWrap(a) == IF a.hi = Half - 1 THEN a.lo - Half ELSE a.hi * Half + a.lo

\* C22: temperature is sampled in an iteration only if at least 250 ms have
\* passed since the timestamp of the previous sample, also when the 32-bit
\* millisecond counter has wrapped in between; the sample's timestamp is the
\* counter just read.
C22_SampleStep ==
    (pc = "temp" /\ (lastTempMs' # lastTempMs \/ tempCount' # tempCount)) =>
        /\ FromWrap(uptimeMs') - FromWrap(lastTempMs) >= TEMP_SAMPLE_PERIOD_MS
        /\ lastTempMs' = uptimeMs'
        /\ FromWrap(lastTempMs') - FromWrap(lastTempMs) >= TEMP_SAMPLE_PERIOD_MS

C22_SamplesAtLeastAPeriodApart == [][C22_SampleStep]_vars

\* a sample taken after the wraparound, the one before it taken before
C22_Witness ==
    /\ pc = "roll"
    /\ lastTempMs = uptimeMs
    /\ uptimeMs.hi = 0
    /\ tempCount >= 2

----------------------------------------------------------------------------
(* Message numbering of the transmitter *)

\* a counter value below 2^31 as a number
U32Value(a) == a.hi * Half + a.lo

\* C23: the transmitter's sequence number is 1 in the first bucket message it
\* emits and one more in every next one, whether or not the radio send
\* succeeds; the numbers handed to the radio increase strictly in emission
\* order.
C23_SequenceCountsEmissions ==
    /\ U32Value(seqno) = Len(emitted)
    /\ \A i \in 1..Len(emitted) : U32Value(emitted[i].seq) = i
    /\ \A i, j \in 1..Len(emitted) :
           i < j => U32Value(emitted[i].seq) < U32Value(emitted[j].seq)

\* two messages emitted, the send of the first refused, the second sent
C23_Witness ==
    /\ Len(emitted) = 2
    /\ emitted[1].send_ret # "ESP_OK"
    /\ emitted[2].send_ret = "ESP_OK"
    /\ emitted[1].bucketKey # emitted[2].bucketKey

----------------------------------------------------------------------------
(* The temperature sample of the rollover iteration *)

\* the temperature readings accumulated in the current iteration, and before
TempOfThisIteration == SelectSeq(tempWindow, LAMBDA x : x.it = blocks)
TempOfEarlierIterations == SelectSeq(tempWindow, LAMBDA x : x.it < blocks)

\* C24: a temperature reading sampled in the iteration that detects a
\* rollover goes into the newly opened bucket, after the reset: the record
\* emitted in that iteration averages the earlier readings only, and the new
\* bucket starts with that one reading.
C24_RolloverStep ==
    (/\ pc = "roll"
     /\ Len(emitted') = Len(emitted) + 1
     /\ TempOfThisIteration # <<>>) =>
        /\ Last(emitted').avgCelsius = MeanV(TempOfEarlierIterations, NaN)
        /\ tempCount' = Len(TempOfThisIteration)
        /\ tempSumC' = SumV(TempOfThisIteration)

C24_SampleGoesToNewBucket == [][C24_RolloverStep]_vars

----------------------------------------------------------------------------
(* The floor of the level *)

\* C25: -120.0 is a lower bound on the instantaneous dBFS of every audio
\* block, whatever its rms, and so dbfs_smooth, seeded at -90.0, is never
\* below -120.0.
C25_FloorIsLowerBound ==
    /\ \A i \in 1..Len(maxWindow) : maxWindow[i].dbfs >= DBFS_FLOOR
    /\ dbfs_smooth >= DBFS_FLOOR

----------------------------------------------------------------------------
(* Forwarding of relayed messages, the two tasks interleaved *)

\* C26: under every interleaving of onRecv with loop(), each accepted relay
\* message is forwarded at most once: no two forwards carry the same message,
\* there are no more forwards than accepted messages, and with the flag
\* cleared and no critical section open the loop is not on its way to a
\* forward.
C26_ForwardedAtMostOnce ==
    /\ \A i, j \in 1..Len(forwarded) : i # j => forwarded[i] # forwarded[j]
    /\ \A i, j \in 1..Len(forwarded) : i # j => forwarded[i].seq # forwarded[j].seq
    /\ Len(forwarded) <= Cardinality(AcceptedIn(rx))
    /\ \A i \in 1..Len(forwarded) :
           \E k \in AcceptedIn(rx) : forwarded[i] = Decode(rx[k])

\* a drain has cleared the flag: the loop forwards once and then goes on to
\* read audio, not back to the mailbox
C26_AfterDrainStep ==
    (pc = "top" /\ ~remotePending) => pc' # "drain"

C26_EachAcceptedAtMostOnce ==
    [][C26_AfterDrainStep]_vars /\ []C26_ForwardedAtMostOnce

\* a message was accepted while the loop was forwarding the one before; both
\* have been forwarded, and the loop has since passed the mailbox again with
\* the flag clear
C26_Witness ==
    /\ Len(forwarded) = 2
    /\ forwarded[1].seq = 1
    /\ forwarded[2].seq = 2
    /\ ~remotePending
    /\ cbpc = "idle"
    /\ pc = "align"
    /\ blocks >= 2

----------------------------------------------------------------------------
(* The mailbox while the loop keeps iterating: the two tasks interleaved     *)
(* step by step, both scheduled again and again                              *)

\* the steps of onRecv once a packet has been delivered
CallbackStep ==
    \/ CbEnter
    \/ CbWriteHead
    \/ CbWriteTail
    \/ CbSetPending
    \/ CbExit

\* the steps of loop() of a node that has not aligned yet
MailboxLoopStep ==
    \/ LoopTest
    \/ DrainEnter
    \/ DrainCopyHead
    \/ DrainCopyTail
    \/ DrainClear
    \/ DrainExit
    \/ \E outcome \in ForwardOutcomes : LoopForward(outcome)
    \/ \E block \in SilentBlocks :
            /\ block.err = "ESP_OK" => blocks < MaxRelayBlocks
            /\ LoopRead(block, StartupSecond)
    \/ LoopAlign

\* a whole MinuteMsg, accepted, and a short packet, dropped
MailboxPackets == {Len(MinuteMsgLayout), 3}

NextMailbox ==
    \/ \E n \in MailboxPackets : CbStart(n)
    \/ CallbackStep
    \/ MailboxLoopStep

\* the callback runs to its end and the main loop keeps iterating
SpecMailbox ==
    /\ Init
    /\ [][NextMailbox]_vars
    /\ WF_vars(CallbackStep)
    /\ WF_vars(MailboxLoopStep)

\* a forward of packet k or of a packet accepted after it
ForwardedFrom(k) == \E i \in 1..Len(forwarded) : forwarded[i].seq >= k

\* with the flag set at the start of an iteration the loop goes to the
\* mailbox, not to the audio read
C27_FlagFirstStep == (pc = "top" /\ remotePending) => pc' # "read"

\* C27: a message the callback accepts at any point, also between the loop's
\* test of remotePending and its critical section or during an upload, is
\* eventually forwarded unless a later one has replaced it, and then that one
\* is: a set flag is always followed by a drain, taken at the start of an
\* iteration before its audio read.
C27_AcceptedEventuallyForwarded ==
    /\ [][C27_FlagFirstStep]_vars
    /\ remotePending ~> ~remotePending
    /\ \A k \in 1..MaxRecv :
          (Len(rx) >= k /\ k \in AcceptedIn(rx)) ~> ForwardedFrom(k)

\* the second message was accepted after the loop had tested the flag for the
\* first and before its critical section, and was the one forwarded
C27_Witness ==
    /\ Len(forwarded) = 1
    /\ AcceptedIn(rx) = {1, 2}
    /\ forwarded[1].seq = 2
    /\ Len(drainMarks) = 1
    /\ ~remotePending
    /\ cbpc = "idle"
    /\ pc = "top"

----------------------------------------------------------------------------
(* The sample count of an emitted record *)

\* the rollover check of an aligned node is about to run on an empty bucket
C28_CheckOnEmptyBucket == pc = "roll" /\ minuteAligned /\ splCount = 0

\* C28 as stated: at every rollover check of an aligned node the open bucket
\* already holds at least one accumulated loudness reading.
C28_EveryCheckHasReading == ~C28_CheckOnEmptyBucket

\* C28: every emitted CompletedBucketRecord has loudnessSampleCount >= 1: at
\* every rollover check that finds the BucketKey changed the open bucket holds
\* at least one accumulated loudness reading, so the flush never takes its
\* zero-count branch. The bucket is empty only at the check of the aligning
\* iteration, whose key was taken from the same clock reading.
C28_EmittedCountAtLeastOne ==
    /\ \A i \in 1..Len(emitted) : emitted[i].loudnessSampleCount >= 1
    /\ (pc = "roll" /\ RolloverDetected(now)) =>
          /\ splCount >= 1
          /\ splCount = Len(window)
    /\ C28_CheckOnEmptyBucket =>
          /\ alignedAt.it = blocks
          /\ ~RolloverDetected(now)

\* a bucket of one reading has been flushed, and one of several
C28_Witness ==
    /\ Len(emitted) >= 2
    /\ \E i \in 1..Len(emitted) : emitted[i].loudnessSampleCount = 1
    /\ \E i \in 1..Len(emitted) : emitted[i].loudnessSampleCount >= 2

----------------------------------------------------------------------------
(* The maximum and the average of an emitted record *)

\* C29: in every emitted CompletedBucketRecord, uploaded or sent by radio,
\* maxSplDb >= avgSplDb.
C29_MaxAtLeastAverage ==
    \A i \in 1..Len(emitted) : emitted[i].maxSplDb >= emitted[i].avgSplDb

----------------------------------------------------------------------------
(* An iteration of a network-time node whose clock read fails *)

\* the iteration read a block and returned at the failed getLocalYMDHMS
ClockReadFailed == pc = "read" /\ pc' = "top" /\ blocks' = blocks + 1

C30_ClockFailStep ==
    ClockReadFailed =>
        /\ emitted' = emitted
        /\ posts' = posts
        /\ UNCHANGED <<splSum, dbfsSum, splCount, splMax, tempSumC, tempCount>>
        /\ UNCHANGED <<bucketYear, bucketMonth, bucketDay, bucketHour,
                       bucketMinute>>
        /\ minuteAligned' = minuteAligned

\* C30: on a network-time node an iteration whose clock read fails emits no
\* record and leaves the whole BucketAccumulator (sums, sample count and
\* maximum), the open BucketKey and the alignment state unchanged.
C30_ClockFailureChangesNothing == [][C30_ClockFailStep]_vars

====
